---- MODULE Spec2Model ----
(***************************************************************************)
(* Last-Deploy: the job queue, startup recovery and the deployment worker. *)
(*                                                                         *)
(* The record store (SQLite rows), the bounded channel of job identifiers, *)
(* the main goroutine, the HTTP handler goroutines that create jobs, the   *)
(* worker goroutine and the process-wide shutdown context are modelled as  *)
(* one state machine.  Every store call and every external operation of    *)
(* the worker is one atomic step, so that the shutdown signal and the      *)
(* producers interleave with the worker exactly at call boundaries.        *)
(***************************************************************************)
EXTENDS Integers, Sequences, FiniteSets, TLC

(***************************************************************************)
(* Bounds of the model.                                                    *)
(***************************************************************************)
\* The highest identifier a request handler gives to a new job row.
MaxJobs == 2
\* The argument main passes to NewQueue (128 in main.go), scaled down.
QueueBuffer == 2
\* How many times a caller hands an already known identifier to Enqueue again.
MaxDuplicates == 2

\* The identifiers of the rows request handlers can create.
JobIds == 1..MaxJobs

(***************************************************************************)
(* Constants of package store.                                             *)
(***************************************************************************)
JobStatusQueued == "queued"
JobStatusRunning == "running"
JobStatusSucceeded == "succeeded"
JobStatusFailed == "failed"
JobStatuses == {JobStatusQueued, JobStatusRunning, JobStatusSucceeded, JobStatusFailed}

JobTypeDeploy == "deploy"
JobTypeStart == "start"
JobTypeStop == "stop"
JobTypePause == "pause"
JobTypeUnpause == "unpause"
JobTypeDelete == "delete"

ProjectStatusUnknown == "unknown"
ProjectStatusRunning == "running"
ProjectStatusPaused == "paused"
ProjectStatusStopped == "stopped"
ProjectStatusFailed == "failed"
ProjectStatusDeleted == "deleted"
ProjectStatusDeploying == "deploying"

DeployTypeDockerfile == "dockerfile"
DeployTypeCompose == "compose"

\* A nullable INTEGER column (sql.NullInt64): <<>> is NULL, <<t>> holds t.
NullInt == <<>>
SomeInt(t) == <<t>>

\* The request times (Unix seconds) of the rows persisted before the process
\* started: two rows can share a second.
PastTimes == {0, 1}

\* time.Now().Unix() during this run: not before any persisted request time.
Now == 1

(***************************************************************************)
(* Small utilities.                                                        *)
(***************************************************************************)
Range(s) == {s[i] : i \in 1..Len(s)}

IsPrefix(s, t) == Len(s) <= Len(t) /\ SubSeq(t, 1, Len(s)) = s

\* All orderings of the finite set S.
RECURSIVE Perms(_)
Perms(S) == IF S = {} THEN {<<>>}
            ELSE UNION {{<<x>> \o p : p \in Perms(S \ {x})} : x \in S}

(***************************************************************************)
(* Package store: the rows and the accessors the worker and the API use.   *)
(* A table is a function from primary key to row.                          *)
(***************************************************************************)
\* type Job: the columns of table jobs.
Job(project_id, type, status, current_step, log, error, requested_at, started_at, finished_at) ==
    [project_id |-> project_id, type |-> type, status |-> status,
     current_step |-> current_step, log |-> log, error |-> error,
     requested_at |-> requested_at, started_at |-> started_at,
     finished_at |-> finished_at]

\* INSERT INTO jobs: requested_at defaults to now, status to queued,
\* started_at and finished_at are inserted as NULL.
CreateJob(js, id, project_id, type) ==
    IF id \in DOMAIN js THEN js
    ELSE js @@ (id :> Job(project_id, type, JobStatusQueued, "", <<>>, "",
                          Now, NullInt, NullInt))

\* SELECT ... FROM jobs WHERE id = ?: the row is found or ErrNotFound.
GetJobFound(js, id) == id \in DOMAIN js

\* A query without the WHERE clause.
ListJobsOfEveryStatus(js, status) ==
    {p \in Perms(DOMAIN js) :
       \A i \in 1..Len(p) : \A k \in i..Len(p) :
          js[p[i]].requested_at <= js[p[k]].requested_at}

\* SELECT ... WHERE status = ? ORDER BY requested_at ASC: every order of the
\* matching rows that is ascending in requested_at (rows with equal times
\* come in an order SQLite does not promise).
ListJobsByStatus(js, status) ==
    LET match == {id \in DOMAIN js : js[id].status = status}
    IN  {p \in Perms(match) :
           \A i \in 1..Len(p) : \A k \in i..Len(p) :
              js[p[i]].requested_at <= js[p[k]].requested_at}

\* An UPDATE that leaves the status column alone.
SetJobRunningKeepsStatus(js, id, step) ==
    [js EXCEPT ![id].current_step = step, ![id].started_at = SomeInt(Now)]

\* UPDATE jobs SET status = running, current_step = ?, started_at = now WHERE id = ?
SetJobRunning(js, id, step) ==
    IF id \in DOMAIN js
    THEN [js EXCEPT ![id].status = JobStatusRunning,
                    ![id].current_step = step,
                    ![id].started_at = SomeInt(Now)]
    ELSE js

\* UPDATE jobs SET current_step = ? WHERE id = ?
SetJobStep(js, id, step) ==
    IF id \in DOMAIN js THEN [js EXCEPT ![id].current_step = step] ELSE js

\* UPDATE jobs SET log = log || ? WHERE id = ?
AppendJobLog(js, id, line) ==
    IF id \in DOMAIN js THEN [js EXCEPT ![id].log = Append(@, line)] ELSE js

\* UPDATE jobs SET status = failed, error = ?, finished_at = now WHERE id = ?
SetJobFailed(js, id, msg) ==
    IF id \in DOMAIN js
    THEN [js EXCEPT ![id].status = JobStatusFailed,
                    ![id].error = msg,
                    ![id].finished_at = SomeInt(Now)]
    ELSE js

\* UPDATE jobs SET status = succeeded, finished_at = now WHERE id = ?
SetJobSucceeded(js, id) ==
    IF id \in DOMAIN js
    THEN [js EXCEPT ![id].status = JobStatusSucceeded,
                    ![id].finished_at = SomeInt(Now)]
    ELSE js

\* SELECT ... FROM projects WHERE id = ? AND deleted_at IS NULL
GetProjectFound(ps, id) == id \in DOMAIN ps /\ ps[id].deleted_at = NullInt

\* The update without AND deleted_at IS NULL.
SetProjectStatusOfAnyRow(ps, id, status) ==
    IF id \in DOMAIN ps
    THEN [ps EXCEPT ![id].last_status = status, ![id].last_status_at = SomeInt(Now)]
    ELSE ps

\* UPDATE projects SET last_status = ?, last_status_at = now
\* WHERE id = ? AND deleted_at IS NULL
SetProjectStatus(ps, id, status) ==
    IF id \in DOMAIN ps /\ ps[id].deleted_at = NullInt
    THEN [ps EXCEPT ![id].last_status = status,
                    ![id].last_status_at = SomeInt(Now)]
    ELSE ps

\* UPDATE projects SET deleted_at = now, last_status = deleted, last_status_at = now
\* WHERE id = ? AND deleted_at IS NULL
MarkProjectDeleted(ps, id) ==
    IF id \in DOMAIN ps /\ ps[id].deleted_at = NullInt
    THEN [ps EXCEPT ![id].deleted_at = SomeInt(Now),
                    ![id].last_status = ProjectStatusDeleted,
                    ![id].last_status_at = SomeInt(Now)]
    ELSE ps

(***************************************************************************)
(* Packages engine and workspace: the pure helpers the worker branches on. *)
(* Strings are tokens; a relative path is the sequence of its segments.    *)
(***************************************************************************)
\* strings.ToLower(strings.TrimSpace(s)) on the deploy_type values a row can hold.
LowerTrim(s) == CASE s = " Compose" -> "compose"
                  [] s = "Dockerfile" -> "dockerfile"
                  [] OTHER -> s

\* A resolution by the compose file alone, whatever deploy_type says.
ResolveByComposeFile(deployType, composeFile) ==
    IF composeFile # "" THEN DeployTypeCompose ELSE DeployTypeDockerfile

\* engine.ResolveDeployType; strings.TrimSpace(composeFile) is composeFile
\* for the file names of the model, none of which is blank.
ResolveDeployType(deployType, composeFile) ==
    CASE LowerTrim(deployType) = DeployTypeCompose -> DeployTypeCompose
      [] LowerTrim(deployType) = DeployTypeDockerfile -> DeployTypeDockerfile
      [] OTHER -> IF composeFile # "" THEN DeployTypeCompose ELSE DeployTypeDockerfile

\* workspace.SafeJoin fails on a ".." segment and on an absolute rel (whose
\* first segment, before the leading separator, is empty).
SafeJoinFails(rel) ==
    \/ \E i \in 1..Len(rel) : rel[i] = ".."
    \/ (Len(rel) > 1 /\ rel[1] = "")

\* workspace.WorkDir: the repository directory itself when repo_subdir is
\* empty, else SafeJoin(repoDir, repo_subdir); TRUE when it returns an error.
WorkDirFails(project) ==
    IF project.repo_subdir = <<>> THEN FALSE ELSE SafeJoinFails(project.repo_subdir)

(***************************************************************************)
(* The projects of the model and the rows a previous run can have left.    *)
(***************************************************************************)
Projects == {"p1", "p2"}

\* type Project: the columns the worker reads or writes.
Project(deploy_type, compose_file, compose_content, dockerfile_path, dockerfile_content, repo_subdir) ==
    [deploy_type |-> deploy_type, compose_file |-> compose_file,
     compose_content |-> compose_content, dockerfile_path |-> dockerfile_path,
     dockerfile_content |-> dockerfile_content, repo_subdir |-> repo_subdir,
     compose_service |-> <<>>, host_port |-> 0, container_port |-> 0,
     last_status |-> ProjectStatusUnknown, last_status_at |-> NullInt,
     deleted_at |-> NullInt]

\* A project with a compose service selector.
WithService(project, compose_service) == [project EXCEPT !.compose_service = compose_service]

\* A project with the ports of its configuration.
WithPorts(project, host_port, container_port) ==
    [project EXCEPT !.host_port = host_port, !.container_port = container_port]

\* p1 is a compose project with literal compose text, p2 a Dockerfile project
\* (deploy_type auto, no compose file) with literal Dockerfile text.
ComposeProject == Project("compose", "docker-compose.yml", "services:", "Dockerfile", "", <<>>)
DockerfileProject ==
    WithPorts(Project("auto", "", "", "Dockerfile", "FROM alpine", <<>>), 8080, 80)
\* A Dockerfile project whose repo_subdir escapes the repository.
EscapingProject ==
    WithPorts(Project("auto", "", "", "Dockerfile", "FROM alpine", <<"..", "etc">>), 8080, 80)

\* Project p2 beside a project p1 of any shape: a Dockerfile project on a
\* host port of its own.
OtherProject ==
    WithPorts(Project("auto", "", "", "Dockerfile", "FROM alpine", <<>>), 8081, 80)

\* A soft-deleted project row.
Deleted(project) == [project EXCEPT !.deleted_at = SomeInt(0),
                                    !.last_status = ProjectStatusDeleted,
                                    !.last_status_at = SomeInt(0)]

\* The job types the API layer creates, and the types a persisted row can
\* hold (the column is free text: "bogus" is a type the worker does not know).
JobTypes == {JobTypeDeploy}

\* A row as a previous run of the worker leaves it in the given status.
PersistedJob(project_id, type, status, t) ==
    CASE status = JobStatusQueued ->
           Job(project_id, type, status, "", <<>>, "", t, NullInt, NullInt)
      [] status = JobStatusRunning ->
           Job(project_id, type, status, "init", <<"job started">>, "", t, SomeInt(t), NullInt)
      [] status = JobStatusSucceeded ->
           Job(project_id, type, status, "init", <<"job started", "job finished">>, "",
               t, SomeInt(t), SomeInt(t))
      [] OTHER ->
           Job(project_id, type, status, "init", <<"job started", "error: exit status 1">>, "exit status 1",
               t, SomeInt(t), SomeInt(t))

(***************************************************************************)
(* Package jobs: the queue.                                                *)
(***************************************************************************)
\* NewQueue: a non-positive buffer becomes 1; the result is the capacity of
\* the channel make(chan string, buffer).
NewQueue(buffer) == IF buffer <= 0 THEN 1 ELSE buffer

\* main: queue := jobs.NewQueue(128)
Capacity == NewQueue(QueueBuffer)

\* A send that returns at once on a full buffer, dropping the identifier.
EnqueueDropsWhenFull(c, jobID) == IF Len(c) < Capacity THEN {Append(c, jobID)} ELSE {c}

\* Queue.Enqueue, q.ch <- jobID: the channels the send can leave behind; none
\* while the buffer is full (the sender stays blocked).
Enqueue(c, jobID) == IF Len(c) < Capacity THEN {Append(c, jobID)} ELSE {}

\* A receive that yields the newest identifier.
ReceiveNewest(c) == IF c = <<>> THEN {} ELSE {<<c[Len(c)], SubSeq(c, 1, Len(c) - 1)>>}

\* <-w.queue.C(): the (identifier, remaining channel) pairs a receive can
\* yield; none while the channel is empty.
Receive(c) == IF c = <<>> THEN {} ELSE {<<Head(c), Tail(c)>>}

\* Two goroutines running Worker.Run.
TwoWorkerGoroutines == {"w1", "w2"}

\* The goroutines main starts with `go worker.Run(ctx)`.
WorkerGoroutines == {"w1"}

(***************************************************************************)
(* State.                                                                  *)
(***************************************************************************)
VARIABLES
    jobs,       \* table jobs: id -> row
    projects,   \* table projects: id -> row
    repos,      \* the projects whose working copy exists on disk
    ch,         \* Queue.ch, the buffered channel of job identifiers
    ctxDone,    \* the context of signal.NotifyContext has been cancelled
    mainPc,     \* where the main goroutine is
    recJobs,    \* EnqueuePersisted: the listed jobs not yet enqueued
    sending,    \* the jobs whose HTTP handler has inserted the row and is in Enqueue
    worker,     \* per worker goroutine: [pc, jobID, job, project, err]
    enqLog,     \* history: identifiers in the order their sends completed
    deqLog,     \* history: identifiers in the order the worker received them
    recLog,     \* history: identifiers EnqueuePersisted has enqueued
    runs,       \* history: per job, how often runJob went past its status check
    ops,        \* history: <<jobID, operation>> for every external operation begun
    dups,       \* history: number of repeated Enqueue calls so far
    persisted,  \* history: table jobs as it was when the process started
    docker,     \* the containers, networks and images of the Docker daemon
    call        \* a call of a pure helper: its name, its arguments, its result

vars == <<jobs, projects, repos, ch, ctxDone, mainPc, recJobs, sending, worker,
          enqLog, deqLog, recLog, runs, ops, dups, persisted, docker, call>>

NoJob == [project_id |-> "", type |-> "", status |-> ""]
NoProject == [id |-> ""]

IdleWorker == [pc |-> "notStarted", jobID |-> 0, job |-> NoJob, project |-> NoProject, err |-> ""]

\* The Docker daemon where a specification does not observe its resources:
\* the worker reads nothing of them but whether a call returned an error.
Unobserved == [containers |-> {}, networks |-> {}, images |-> {}, observed |-> FALSE]

\* No call of a pure helper is under way.
NoCall == [fn |-> "", done |-> FALSE]

\* The rows a previous run can leave.  Rows that are not queued are never
\* executed again: one row per such status is in every table, under the
\* identifiers -1, -2, -3, with request times around those of the queued rows.
\* The queued rows are 1..k, each of any kind and request time; identifiers
\* are random, so the rows are numbered with the latest request first.
PersistedKinds == {<<"p1", JobTypeDeploy>>, <<"p1", "bogus">>}

FinishedRows ==
    (-1 :> PersistedJob("p1", JobTypeDeploy, JobStatusRunning, 0))
    @@ (-2 :> PersistedJob("p2", JobTypeDeploy, JobStatusSucceeded, 0))
    @@ (-3 :> PersistedJob("p1", JobTypeDeploy, JobStatusFailed, 1))

QueuedRows ==
    {PersistedJob(k[1], k[2], JobStatusQueued, rt) : k \in PersistedKinds, rt \in PastTimes}

QueuedTables ==
    {q \in UNION {[1..k -> QueuedRows] : k \in 0..(Capacity + 1)} :
       \A i \in DOMAIN q : \A j \in DOMAIN q :
          i < j => q[i].requested_at >= q[j].requested_at}

PersistedTables == {FinishedRows @@ q : q \in QueuedTables}

\* The state after main has opened the store and built queue and worker,
\* over a table of jobs and a table of projects left by earlier runs.
StartWith(table, projectTable, copies, resources, c) ==
    /\ jobs = table
    /\ projects = projectTable
    /\ repos = copies
    /\ ch = <<>>
    /\ ctxDone = FALSE
    /\ mainPc = "recover"
    /\ recJobs = <<>>
    /\ sending = {}
    /\ worker = [w \in WorkerGoroutines |-> IdleWorker]
    /\ enqLog = <<>>
    /\ deqLog = <<>>
    /\ recLog = <<>>
    /\ runs = [j \in DOMAIN table \cup JobIds |-> 0]
    /\ ops = {}
    /\ dups = 0
    /\ persisted = table
    /\ docker = resources
    /\ call = c

Start(table, projectTable, copies, resources) ==
    StartWith(table, projectTable, copies, resources, NoCall)

Init ==
    \E table \in PersistedTables :
       Start(table, [p \in Projects |-> IF p = "p1" THEN ComposeProject
                                                    ELSE DockerfileProject],
             {}, Unobserved)

\* The shapes of project p1 that decide which way a job on it goes: compose
\* or Dockerfile, a subdirectory outside the repository, a soft-deleted row.
ProjectShapes == {ComposeProject, DockerfileProject, EscapingProject, Deleted(ComposeProject)}

\* Tables with one queued row, which names p1, or with none.
WorkerTables ==
    {FinishedRows} \cup
    {FinishedRows @@ (1 :> PersistedJob(kind[1], kind[2], JobStatusQueued, 0)) :
       kind \in PersistedKinds}

WorkerInit ==
    \E table \in WorkerTables, shape \in ProjectShapes :
       Start(table, [p \in Projects |-> IF p = "p1" THEN shape ELSE OtherProject],
             {}, Unobserved)

\* Every goroutine stops when main returns.
Alive == mainPc # "exited"

\* A store call made with the worker's context: database/sql returns
\* ctx.Err() without executing when the context is already cancelled.
Exec(new, old) == IF ctxDone THEN old ELSE new

(***************************************************************************)
(* Package engine: strings.  A string the engine takes apart is the        *)
(* sequence of its characters.                                             *)
(***************************************************************************)
\* strings.TrimSpace: the characters of the model hold one kind of white space.
RECURSIVE TrimLeft(_)
TrimLeft(s) == IF s # <<>> /\ Head(s) = " " THEN TrimLeft(Tail(s)) ELSE s

RECURSIVE TrimRight(_)
TrimRight(s) == IF s # <<>> /\ s[Len(s)] = " " THEN TrimRight(SubSeq(s, 1, Len(s) - 1)) ELSE s

TrimSpace(s) == TrimRight(TrimLeft(s))

\* strings.Split(s, sep) for a separator of one character.
RECURSIVE Split(_, _)
Split(s, sep) ==
    IF \A i \in 1..Len(s) : s[i] # sep
    THEN <<s>>
    ELSE LET i == CHOOSE k \in 1..Len(s) : s[k] = sep /\ \A m \in 1..(k - 1) : s[m] # sep
         IN  <<SubSeq(s, 1, i - 1)>> \o Split(SubSeq(s, i + 1, Len(s)), sep)

\* strings.HasPrefix
HasPrefix(s, prefix) == IsPrefix(prefix, s)

\* The characters of [a-zA-Z0-9] that occur in the model.
AlNum == {"a", "b", "d", "w", "p", "1", "2"}

\* composeServiceRe.MatchString: ^[a-zA-Z0-9][a-zA-Z0-9_.-]*$
MatchComposeServiceRe(svc) ==
    /\ svc # <<>>
    /\ svc[1] \in AlNum
    /\ \A i \in 2..Len(svc) : svc[i] \in AlNum \cup {"_", ".", "-"}

\* A parse that finds no service in any string.
parseNoServices(serviceStr) == <<>>

\* parseComposeServices: the entries between commas, trimmed, without the
\* empty ones; no entry at all for a blank string.
parseComposeServices(serviceStr) ==
    IF TrimSpace(serviceStr) = <<>>
    THEN <<>>
    ELSE LET parts == Split(TrimSpace(serviceStr), ",")
             trimmed == [i \in 1..Len(parts) |-> TrimSpace(parts[i])]
         IN  SelectSeq(trimmed, LAMBDA s : s # <<>>)

(***************************************************************************)
(* Package workspace with path/filepath on Linux: the separator is "/",    *)
(* no path has a volume name, FromSlash changes nothing.  A path is the    *)
(* sequence of its characters.                                             *)
(***************************************************************************)
\* strings.ReplaceAll(s, old, new) for single characters.
ReplaceAll(s, old, new) == [i \in 1..Len(s) |-> IF s[i] = old THEN new ELSE s[i]]

\* strings.Join(elems, sep)
RECURSIVE StringsJoin(_, _)
StringsJoin(elems, sep) ==
    IF elems = <<>> THEN <<>>
    ELSE IF Len(elems) = 1 THEN elems[1]
    ELSE elems[1] \o sep \o StringsJoin(Tail(elems), sep)

\* filepath.IsAbs
IsAbs(path) == path # <<>> /\ path[1] = "/"

\* The elements of a path that filepath.Clean keeps, in order: an empty
\* element and "." go, ".." takes the element before it away, and at the
\* root it goes itself.
RECURSIVE CleanElements(_, _, _)
CleanElements(elems, kept, rooted) ==
    IF elems = <<>> THEN kept
    ELSE LET e == Head(elems)
         IN  IF e = <<>> \/ e = <<".">>
             THEN CleanElements(Tail(elems), kept, rooted)
             ELSE IF e = <<".", ".">>
             THEN IF kept # <<>> /\ kept[Len(kept)] # <<".", ".">>
                  THEN CleanElements(Tail(elems), SubSeq(kept, 1, Len(kept) - 1), rooted)
                  ELSE IF rooted
                  THEN CleanElements(Tail(elems), kept, rooted)
                  ELSE CleanElements(Tail(elems), Append(kept, e), rooted)
             ELSE CleanElements(Tail(elems), Append(kept, e), rooted)

\* filepath.Clean
Clean(path) ==
    LET kept == CleanElements(Split(path, "/"), <<>>, IsAbs(path))
    IN  IF IsAbs(path) THEN <<"/">> \o StringsJoin(kept, <<"/">>)
        ELSE IF kept = <<>> THEN <<".">>
        ELSE StringsJoin(kept, <<"/">>)

\* filepath.Join of two elements: the non-empty ones, joined and cleaned.
Join(a, b) ==
    IF a = <<>> /\ b = <<>> THEN <<>>
    ELSE IF a = <<>> THEN Clean(b)
    ELSE IF b = <<>> THEN Clean(a)
    ELSE Clean(a \o <<"/">> \o b)

\* The working directory of the process.
Getwd == <<"/", "w">>

\* filepath.Abs
Abs(path) == IF IsAbs(path) THEN Clean(path) ELSE Join(Getwd, path)

\* The elements of a cleaned absolute path.
Elements(path) == SelectSeq(Split(path, "/"), LAMBDA e : e # <<>>)

\* filepath.Rel of two absolute paths: ".." for every element of the base
\* below the common prefix, then what is left of the target.
Rel(basepath, targpath) ==
    LET b == Elements(Clean(basepath))
        t == Elements(Clean(targpath))
        common == {k \in 0..Len(b) : k <= Len(t) /\ \A i \in 1..k : b[i] = t[i]}
        k == CHOOSE n \in common : \A m \in common : m <= n
        up == [i \in 1..(Len(b) - k) |-> <<".", ".">>]
        rest == up \o SubSeq(t, k + 1, Len(t))
    IN  IF rest = <<>> THEN <<".">> ELSE StringsJoin(rest, <<"/">>)

\* A SafeJoin that joins without looking at the segments.
SafeJoinUnchecked(base, rel) ==
    IF base = <<>> THEN [err |-> "base is required", path |-> <<>>]
    ELSE [err |-> "", path |-> Join(base, ReplaceAll(TrimSpace(rel), "\\", "/"))]

\* workspace.SafeJoin: [the error, "" for none; the path returned].
SafeJoin(base, rel) ==
    LET trimmed == TrimSpace(rel)
        normalized == ReplaceAll(trimmed, "\\", "/")
        joined == Join(base, normalized)
        relToBase == Rel(Abs(base), Abs(joined))
    IN  IF base = <<>> THEN [err |-> "base is required", path |-> <<>>]
        ELSE IF trimmed = <<>> \/ trimmed = <<".">> THEN [err |-> "", path |-> Clean(base)]
        ELSE IF \E i \in 1..Len(Split(normalized, "/")) : Split(normalized, "/")[i] = <<".", ".">>
        THEN [err |-> "invalid path: contains '..'", path |-> <<>>]
        ELSE IF IsAbs(normalized)
        THEN [err |-> "invalid path: must be relative", path |-> <<>>]
        ELSE IF relToBase = <<".", ".">> \/ HasPrefix(relToBase, <<".", ".", "/">>)
        THEN [err |-> "invalid path: escapes base dir", path |-> <<>>]
        ELSE [err |-> "", path |-> joined]

\* workspace.WorkDir: the repository directory when repo_subdir is empty,
\* else SafeJoin(repoDir, repo_subdir).
WorkDir(repoDir, repoSubdir) ==
    IF repoSubdir = <<>> THEN [err |-> "", path |-> repoDir]
    ELSE SafeJoin(repoDir, repoSubdir)

\* Worker.deploy, for the Dockerfile and for the compose file alike:
\* workDir, err := workspace.WorkDir(w.cfg, project); if the project holds
\* the text and the path, os.WriteFile(filepath.Join(workDir, path), text).
DeployFilePath(repoDir, repoSubdir, content, filePath) ==
    LET workDir == WorkDir(repoDir, repoSubdir)
    IN  IF workDir.err # "" THEN [err |-> "work dir", written |-> FALSE, path |-> <<>>]
        ELSE IF content # <<>> /\ filePath # <<>>
        THEN [err |-> "", written |-> TRUE, path |-> Join(workDir.path, filePath)]
        ELSE [err |-> "", written |-> FALSE, path |-> <<>>]

(***************************************************************************)
(* Package engine: git.  A repository is what go-git answers about it:     *)
(* whether it has a worktree, the reference names repo.Reference resolves, *)
(* the revisions repo.ResolveRevision resolves, whether wt.Checkout        *)
(* succeeds, and the commit its worktree is at.  A commit is named by the  *)
(* way it was found: by hash, through a reference, through a revision.     *)
(***************************************************************************)
HexLen == 40

HexDigits == {"0", "1", "2", "3", "4", "5", "6", "7", "8", "9",
              "a", "b", "c", "d", "e", "f", "A", "B", "C", "D", "E", "F"}

\* hex40.MatchString: \A[0-9a-fA-F]{40}\z
MatchHex40(ref) == Len(ref) = HexLen /\ \A i \in 1..Len(ref) : ref[i] \in HexDigits

\* Candidates that put the branch before the tag.
candidatesBranchFirst(ref) ==
    <<ref, <<"refs/remotes/origin/">> \o ref, <<"refs/heads/">> \o ref,
      <<"refs/tags/">> \o ref>>

\* checkoutRef: candidates, the reference names tried in turn:
\* ReferenceName(ref), NewRemoteReferenceName("origin", ref),
\* NewTagReferenceName(ref), NewBranchReferenceName(ref).
candidates(ref) ==
    <<ref, <<"refs/remotes/origin/">> \o ref, <<"refs/tags/">> \o ref,
      <<"refs/heads/">> \o ref>>

\* checkoutRef: revCandidates, the revisions tried after the references.
revCandidates(ref) ==
    <<ref, <<"origin/">> \o ref, <<"refs/remotes/origin/">> \o ref,
      <<"refs/tags/">> \o ref, <<"refs/heads/">> \o ref>>

\* The commit a clone or a fetch leaves the worktree at.
Produced == [by |-> "", name |-> <<>>]

\* The position of the first name that is in the set; 0 when none is.
FirstResolved(names, resolved) ==
    LET I == {i \in 1..Len(names) : names[i] \in resolved}
    IN  IF I = {} THEN 0 ELSE CHOOSE i \in I : \A j \in I : i <= j

\* wt.Checkout(&git.CheckoutOptions{Hash: h})
Checkout(repo, h) ==
    IF repo.checkout THEN [err |-> <<>>, head |-> h]
                     ELSE [err |-> <<"checkout">>, head |-> repo.head]

\* checkoutRef: [the error, <<>> for none; the commit the worktree is at].
checkoutRef(repo, ref) ==
    IF ref = <<>> THEN [err |-> <<>>, head |-> repo.head]
    ELSE IF ~repo.worktree THEN [err |-> <<"worktree">>, head |-> repo.head]
    ELSE IF MatchHex40(ref) THEN Checkout(repo, [by |-> "Hash", name |-> ref])
    ELSE IF FirstResolved(candidates(ref), repo.references) # 0
    THEN Checkout(repo, [by |-> "Reference",
                         name |-> candidates(ref)[FirstResolved(candidates(ref),
                                                                repo.references)]])
    ELSE IF FirstResolved(revCandidates(ref), repo.revisions) # 0
    THEN Checkout(repo, [by |-> "Revision",
                         name |-> revCandidates(ref)[FirstResolved(revCandidates(ref),
                                                                   repo.revisions)]])
    ELSE [err |-> <<"unknown git_ref: ">> \o ref, head |-> repo.head]

\* fetchRepo: repo.FetchContext(ctx, ...) fails once ctx is cancelled;
\* git.NoErrAlreadyUpToDate is no error.
fetchRepo(done, fetch) == IF done THEN "err" ELSE IF fetch = "up to date" THEN "ok" ELSE fetch

\* A CloneRepo that returns the error of the fetch.
CloneRepoWithoutFallback(done, url, ref, destDir, git) ==
    IF git.opens /\ fetchRepo(done, git.fetch) = "ok"
    THEN LET c == checkoutRef(git.existing, ref)
         IN  [err |-> c.err, steps |-> <<"PlainOpen", "Fetch", "checkoutRef">>,
              exists |-> TRUE, head |-> c.head]
    ELSE [err |-> <<"fetch">>, steps |-> <<"PlainOpen", "Fetch">>,
          exists |-> git.opens, head |-> Produced]

\* CloneRepo over what the file system and the remote answer: whether
\* destDir opens as a repository (git.existing), whether fetch, os.RemoveAll,
\* os.MkdirAll and the clone succeed, and the repository a clone gives
\* (git.cloned).  The result: the error (<<>> for none), the calls made in
\* order, whether a working copy exists afterwards, the commit it is at.
CloneRepo(done, url, ref, destDir, git) ==
    LET Failed(err, steps, exists) ==
            [err |-> <<err>>, steps |-> steps, exists |-> exists, head |-> Produced]
        freshClone(steps) ==
            IF ~git.removeAll
            THEN Failed("remove", steps \o <<"RemoveAll">>, git.opens)
            ELSE IF ~git.mkdirAll
            THEN Failed("mkdir", steps \o <<"RemoveAll", "MkdirAll">>, FALSE)
            ELSE IF done \/ ~git.clone
            THEN Failed("clone", steps \o <<"RemoveAll", "MkdirAll", "PlainClone">>, FALSE)
            ELSE LET c == checkoutRef(git.cloned, ref)
                 IN  [err |-> c.err,
                      steps |-> steps \o <<"RemoveAll", "MkdirAll", "PlainClone", "checkoutRef">>,
                      exists |-> TRUE, head |-> c.head]
    IN  IF url = "" THEN Failed("git url is required", <<>>, git.opens)
        ELSE IF destDir = "" THEN Failed("dest dir is required", <<>>, git.opens)
        ELSE IF ~git.opens THEN freshClone(<<"PlainOpen">>)
        ELSE IF fetchRepo(done, git.fetch) # "ok" THEN freshClone(<<"PlainOpen", "Fetch">>)
        ELSE LET c == checkoutRef(git.existing, ref)
             IN  [err |-> c.err, steps |-> <<"PlainOpen", "Fetch", "checkoutRef">>,
                  exists |-> TRUE, head |-> c.head]

\* A repository in which the ref of the worker's projects is a branch.
Repository(worktree, references, revisions, checkout) ==
    [worktree |-> worktree, references |-> references, revisions |-> revisions,
     checkout |-> checkout, head |-> Produced]

\* The ref of the projects in the worker's table.
ProjectGitRef == <<"m">>

\* What the worker's synchronisations can meet: every answer of fetch,
\* removal, directory creation and clone, over repositories that hold the
\* branch and whose checkout succeeds or fails.
WorkerGits(exists) ==
    {[opens |-> exists, fetch |-> f, removeAll |-> ra, mkdirAll |-> mk, clone |-> cl,
      existing |-> Repository(TRUE, {<<"refs/heads/">> \o ProjectGitRef}, {}, co),
      cloned |-> Repository(TRUE, {<<"refs/heads/">> \o ProjectGitRef}, {}, co)] :
       f \in {"ok", "err"}, ra \in BOOLEAN, mk \in BOOLEAN, cl \in BOOLEAN, co \in BOOLEAN}

\* cloneProject's call, as the worker sees it: <<result, a working copy
\* exists afterwards>>.
SyncOutcomes(exists) ==
    {<<IF r.err = <<>> THEN "ok" ELSE "err", r.exists>> :
       r \in {CloneRepo(ctxDone, "url", ProjectGitRef, "dest", g) : g \in WorkerGits(exists)}}

(***************************************************************************)
(* Package engine: the Docker daemon.  A container has a name, the value   *)
(* of its label com.last-deploy.project_id ("" without the label), the     *)
(* compose project and service that created it (<<>> for none) and a       *)
(* state; owner is the project whose deploy created the resource.  Every   *)
(* call returns a set of <<result, daemon afterwards>>: it fails without   *)
(* effect once ctx is cancelled, and a loop over containers can fail after *)
(* any part of them.                                                       *)
(***************************************************************************)
\* The characters of a project identifier.  newID draws sixteen random
\* bytes and writes them in hexadecimal: identifiers all have one length.
IdChars(projectID) ==
    CASE projectID = "p1" -> <<"p", "1">>
      [] projectID = "p2" -> <<"p", "2">>
      [] projectID = "" -> <<>>
      [] OTHER -> <<projectID>>

\* imageTag: "last-deploy:" + projectID
imageTag(projectID) == <<"last-deploy:">> \o IdChars(projectID)

\* containerName: "last-deploy-" + projectID
containerName(projectID) == <<"last-deploy-">> \o IdChars(projectID)

\* runComposeUpStop: projectName := "last-deploy-" + spec.ProjectID
composeProjectName(projectID) == <<"last-deploy-">> \o IdChars(projectID)

EmptyDocker == [containers |-> {}, networks |-> {}, images |-> {}, observed |-> TRUE]

\* What a specification that does not observe the daemon keeps of a call:
\* its result.
Observe(d, results) == IF d.observed THEN results ELSE {<<r[1], d>> : r \in results}

\* The parts of a list a loop can have handled when it fails.
Partial(L) == {S \in SUBSET L : S # L} \cup {{}}

SetState(d, S, state) ==
    [d EXCEPT !.containers = {IF c \in S THEN [c EXCEPT !.state = state] ELSE c : c \in d.containers}]

\* listProjectContainers: the containers, stopped ones too, whose label
\* com.last-deploy.project_id is projectID.
listProjectContainers(d, projectID) == {c \in d.containers : c.label = projectID}

\* Start/Stop/Pause/UnpauseProjectContainers: list, then one call per container.
EachProjectContainer(d, projectID, state) ==
    IF projectID = "" \/ ctxDone
    THEN {<<"err", d>>}
    ELSE Observe(d,
           {<<"ok", SetState(d, listProjectContainers(d, projectID), state)>>}
           \cup {<<"err", SetState(d, S, state)>> : S \in Partial(listProjectContainers(d, projectID))})

StartProjectContainers(d, projectID) == EachProjectContainer(d, projectID, "running")
StopProjectContainers(d, projectID) == EachProjectContainer(d, projectID, "exited")
PauseProjectContainers(d, projectID) == EachProjectContainer(d, projectID, "paused")
UnpauseProjectContainers(d, projectID) == EachProjectContainer(d, projectID, "running")

\* RemoveProjectContainers: list by label; stop each (error ignored) and
\* remove it, returning the first error of a removal.
RemoveProjectContainers(d, projectID) ==
    IF projectID = "" \/ ctxDone
    THEN {<<"err", d>>}
    ELSE Observe(d,
           {<<"ok", [d EXCEPT !.containers = @ \ listProjectContainers(d, projectID)]>>}
           \cup {<<"err", [d EXCEPT !.containers = @ \ S]>> :
                   S \in Partial(listProjectContainers(d, projectID))})

\* A prefix filter that forgets the project.
RemoveEveryDeployNetwork(d, projectID) ==
    {<<"ok", [d EXCEPT !.networks = {n \in @ : ~HasPrefix(n.name, <<"last-deploy-">>)}]>>}

\* RemoveProjectNetworks: every network whose name starts with
\* "last-deploy-" + projectID is removed, the error of a removal ignored:
\* "ok" when all of them went, "kept" when nil is returned though a removal
\* failed, "err" when the list failed.
RemoveProjectNetworks(d, projectID) ==
    IF projectID = "" \/ ctxDone
    THEN {<<"err", d>>}
    ELSE LET matching == {n \in d.networks : HasPrefix(n.name, <<"last-deploy-">> \o IdChars(projectID))}
         IN  Observe(d,
               {<<"ok", [d EXCEPT !.networks = @ \ matching]>>, <<"err", d>>}
               \cup {<<"kept", [d EXCEPT !.networks = @ \ S]>> : S \in Partial(matching)})

\* RemoveProjectImage: ImageRemove of the tag imageTag(projectID).
RemoveProjectImage(d, projectID) ==
    IF ctxDone
    THEN {<<"err", d>>}
    ELSE Observe(d,
           {<<"ok", [d EXCEPT !.images = {i \in @ : i.tag # imageTag(projectID)}]>>,
            <<"err", d>>})

\* BuildProjectImage: the image built from contextDir gets the tag
\* imageTag(projectID), which moves from any image that had it.
BuildProjectImage(d, projectID, contextDir) ==
    IF projectID = "" \/ contextDir = "" \/ ctxDone
    THEN {<<"err", d>>}
    ELSE Observe(d,
           {<<"ok", [d EXCEPT !.images = {i \in @ : i.tag # imageTag(projectID)}
                                         \cup {[tag |-> imageTag(projectID), owner |-> projectID]}]>>,
            <<"err", d>>})

\* The highest TCP port.
MaxPort == 65535

\* RunProjectContainer: the ports are checked; a container named
\* containerName(projectID) is removed (error ignored), one is created with
\* the label and the name, and started.
RunProjectContainer(d, projectID, hostPort, containerPort) ==
    IF \/ projectID = ""
       \/ hostPort <= 0 \/ hostPort > MaxPort
       \/ containerPort <= 0 \/ containerPort > MaxPort
       \/ ctxDone
    THEN {<<"err", d>>}
    ELSE LET without == {c \in d.containers : c.name # containerName(projectID)}
             created(state) == [name |-> containerName(projectID), label |-> projectID,
                                project |-> <<>>, service |-> <<>>, state |-> state,
                                owner |-> projectID]
         IN  Observe(d,
               {<<"ok", [d EXCEPT !.containers = without \cup {created("running")}]>>,
                <<"err", d>>,
                <<"err", [d EXCEPT !.containers = without]>>,
                <<"err", [d EXCEPT !.containers = without \cup {created("created")}]>>})

(***************************************************************************)
(* Package engine: docker compose.                                         *)
(***************************************************************************)
\* strings.TrimSpace(s) == "" for a path kept as one token.
Blank(s) == s \in {"", " "}

\* type ComposeSpec, as composeUp, composeStop, composePause and
\* composeUnpause of the worker fill it in.
ComposeSpec(project, workDir) ==
    [ProjectID |-> project.id, WorkDir |-> workDir,
     ComposeFile |-> project.compose_file, ComposeService |-> project.compose_service]

\* The services the compose file of a project declares.
ComposeFileServices == {<<"w">>, <<"d">>}

\* What `docker compose -p last-deploy-<id> ... <sub> <services>` does to the
\* daemon: up creates the containers of the services on the network of the
\* compose project, a container carrying the label exactly when the override
\* file names its service; stop, pause and unpause act on the containers of
\* the compose project that belong to the services.  No service list means
\* every service of the file; a service the file does not declare fails the
\* command.
ComposeCommand(d, projectID, sub, services) ==
    LET targets == IF services = <<>> THEN ComposeFileServices ELSE Range(services)
        name == composeProjectName(projectID)
        created(svc) == [name |-> name \o <<"-">> \o svc \o <<"-1">>,
                         label |-> IF services = <<>> THEN "" ELSE projectID,
                         project |-> name, service |-> svc, state |-> "running",
                         owner |-> projectID]
        up(T) == [d EXCEPT
                    !.containers = {c \in @ : ~(c.project = name /\ c.service \in T)}
                                   \cup {created(svc) : svc \in T},
                    !.networks = @ \cup {[name |-> name \o <<"_default">>, owner |-> projectID]}]
        mine == {c \in d.containers : c.project = name /\ c.service \in targets}
        state == CASE sub = "stop" -> "exited" [] sub = "pause" -> "paused" [] OTHER -> "running"
    IN  IF ~(targets \subseteq ComposeFileServices)
        THEN {<<"err", d>>}
        ELSE IF sub = "up"
             THEN {<<"ok", up(targets)>>, <<"err", d>>}
                  \cup {<<"err", up(S)>> : S \in Partial(targets)}
             ELSE {<<"ok", SetState(d, mine, state)>>}
                  \cup {<<"err", SetState(d, S, state)>> : S \in Partial(mine)}

NoCommand == [sub |-> "", services |-> <<>>, files |-> 0]

\* The outcome of a call rejected before the override file and the command.
Rejected(d) ==
    [result |-> "err", docker |-> d, override |-> "none", labelled |-> <<>>,
     command |-> NoCommand]

\* Validation that lets every service name through.
ServiceNamesUnchecked(services) == TRUE

\* runComposeUpStop: for _, svc := range services: composeServiceRe must match.
ServiceNamesValid(services) ==
    \A i \in 1..Len(services) : MatchComposeServiceRe(services[i])

\* writeComposeOverride: os.CreateTemp can fail, and then there is no file;
\* f.WriteString can fail, and then the file is removed before the return;
\* otherwise the file holds, for each service, the label of the project.
writeComposeOverride(projectID, services) ==
    {[err |-> TRUE, file |-> "failed", labelled |-> <<>>],
     [err |-> TRUE, file |-> "removed", labelled |-> <<>>],
     [err |-> FALSE, file |-> "written", labelled |-> services]}

\* runComposeUpStop: defer os.Remove(override), on every return after the
\* file was written.
deferRemove(file) == IF file = "written" THEN "removed" ELSE file

\* An override file for every call.
OverrideAlways(services) == TRUE

\* runComposeUpStop: if len(services) > 0
NeedsOverride(services) == Len(services) > 0

\* runComposeUpStop(ctx, spec, sub): the set of outcomes, each with the
\* result, the daemon afterwards, what became of the override file ("none"
\* when the call asked for none, "failed" when its creation failed,
\* "removed" when the call deleted the one it created: the deferred
\* os.Remove runs on every return after the creation), the services the
\* override labels, and the compose command run.  exec.CommandContext does
\* not start the command once ctx is cancelled.
runComposeUpStop(d, spec, sub) ==
    LET services == parseComposeServices(spec.ComposeService)
        command == [sub |-> sub, services |-> services,
                    files |-> IF NeedsOverride(services) THEN 2 ELSE 1]
        Run(labelled, override) ==
            IF ctxDone
            THEN {[result |-> "err", docker |-> d, override |-> override,
                   labelled |-> labelled, command |-> NoCommand]}
            ELSE {[result |-> r[1], docker |-> r[2], override |-> override,
                   labelled |-> labelled, command |-> command] :
                    r \in Observe(d, ComposeCommand(d, spec.ProjectID, sub, services))}
    IN  IF \/ spec.ProjectID = ""
           \/ spec.WorkDir = ""
           \/ Blank(spec.ComposeFile)
           \/ ~ServiceNamesValid(services)
        THEN {Rejected(d)}
        ELSE IF NeedsOverride(services)
        THEN UNION {IF o.err
                    THEN {[Rejected(d) EXCEPT !.override = o.file]}
                    ELSE Run(o.labelled, deferRemove(o.file)) :
                      o \in writeComposeOverride(spec.ProjectID, services)}
        ELSE Run(<<>>, "none")

(***************************************************************************)
(* Package api: the port parsers.  A text is the sequence of its           *)
(* characters, line feeds included.  Numbers stay far below the width of   *)
(* int: no numeral of the model has more than five digits.                 *)
(***************************************************************************)
\* strings.ToUpper on the letters of the model.
UpperOf(char) ==
    CASE char = "e" -> "E" [] char = "x" -> "X" [] char = "p" -> "P" [] char = "o" -> "O"
      [] char = "s" -> "S" [] char = "t" -> "T" [] char = "c" -> "C" [] char = "u" -> "U"
      [] char = "d" -> "D" [] char = "a" -> "A" [] char = "l" -> "L" [] char = "i" -> "I"
      [] char = "n" -> "N" [] OTHER -> char

ToUpper(s) == [i \in 1..Len(s) |-> UpperOf(s[i])]

\* strings.TrimPrefix
TrimPrefix(s, prefix) ==
    IF HasPrefix(s, prefix) THEN SubSeq(s, Len(prefix) + 1, Len(s)) ELSE s

\* strings.HasSuffix
HasSuffix(s, suffix) ==
    Len(suffix) <= Len(s) /\ SubSeq(s, Len(s) - Len(suffix) + 1, Len(s)) = suffix

\* strings.TrimSuffix
TrimSuffix(s, suffix) ==
    IF HasSuffix(s, suffix) THEN SubSeq(s, 1, Len(s) - Len(suffix)) ELSE s

Digits == {"0", "1", "2", "3", "4", "5", "6", "7", "8", "9"}

DigitValue(char) ==
    CASE char = "0" -> 0 [] char = "1" -> 1 [] char = "2" -> 2 [] char = "3" -> 3 [] char = "4" -> 4
      [] char = "5" -> 5 [] char = "6" -> 6 [] char = "7" -> 7 [] char = "8" -> 8 [] char = "9" -> 9

\* for _, ch := range portStr: a digit ch gives port = port*10 + int(ch-'0')
RECURSIVE DigitsValue(_, _)
DigitsValue(s, port) ==
    IF s = <<>> THEN port
    ELSE DigitsValue(Tail(s), IF Head(s) \in Digits THEN port * 10 + DigitValue(Head(s))
                                                    ELSE port)

\* A range check that lets every number through.
AnyPort(port) == TRUE

\* if port > 0 && port <= 65535
ValidPort(port) == port > 0 /\ port <= MaxPort

\* parseDockerfilePort, one line: the port of an EXPOSE line, -1 for a line
\* the loop passes over.
ExposedPort(line) ==
    LET upper == ToUpper(TrimSpace(line))
        prefix == <<"E", "X", "P", "O", "S", "E", " ">>
        portStr == Split(Split(TrimSpace(TrimPrefix(upper, prefix)), "/")[1], " ")[1]
        port == DigitsValue(portStr, 0)
    IN  IF HasPrefix(upper, prefix) /\ ValidPort(port) THEN port ELSE -1

\* parseDockerfilePort: the loop over strings.Split(content, "\n").
RECURSIVE FirstExposedPort(_)
FirstExposedPort(lines) ==
    IF lines = <<>> THEN 0
    ELSE IF ExposedPort(Head(lines)) # -1 THEN ExposedPort(Head(lines))
    ELSE FirstExposedPort(Tail(lines))

parseDockerfilePort(content) == FirstExposedPort(Split(content, "\n"))

\* isComposeKeyword
ComposeKeywords ==
    {<<"p", "o", "r", "t", "s">>,
     <<"v", "o", "l", "u", "m", "e", "s">>,
     <<"e", "n", "v", "i", "r", "o", "n", "m", "e", "n", "t">>,
     <<"d", "e", "p", "e", "n", "d", "s", "_", "o", "n">>,
     <<"n", "e", "t", "w", "o", "r", "k", "s">>,
     <<"b", "u", "i", "l", "d">>,
     <<"i", "m", "a", "g", "e">>,
     <<"c", "o", "n", "t", "a", "i", "n", "e", "r", "_", "n", "a", "m", "e">>,
     <<"r", "e", "s", "t", "a", "r", "t">>,
     <<"c", "o", "m", "m", "a", "n", "d">>,
     <<"e", "n", "t", "r", "y", "p", "o", "i", "n", "t">>,
     <<"l", "a", "b", "e", "l", "s">>,
     <<"e", "x", "p", "o", "s", "e">>,
     <<"h", "e", "a", "l", "t", "h", "c", "h", "e", "c", "k">>,
     <<"l", "o", "g", "g", "i", "n", "g">>,
     <<"d", "e", "p", "l", "o", "y">>,
     <<"c", "o", "n", "f", "i", "g", "s">>,
     <<"s", "e", "c", "r", "e", "t", "s">>,
     <<"u", "l", "i", "m", "i", "t", "s">>,
     <<"s", "y", "s", "c", "t", "l", "s">>}

isComposeKeyword(name) == name \in ComposeKeywords

\* strings.Trim(s, cutset)
RECURSIVE Trim(_, _)
Trim(s, cutset) ==
    IF s # <<>> /\ Head(s) \in cutset THEN Trim(Tail(s), cutset)
    ELSE IF s # <<>> /\ s[Len(s)] \in cutset THEN Trim(SubSeq(s, 1, Len(s) - 1), cutset)
    ELSE s

\* parseComposePort, a line of a ports list: the pair of a "- H:C" entry
\* whose two numbers are ports, <<0, 0>> for an entry the loop passes over.
PortEntry(trimmed) ==
    LET portStr == Trim(TrimSpace(TrimPrefix(trimmed, <<"-">>)), {"\"", "'"})
        parts == Split(portStr, ":")
        hp == DigitsValue(Split(parts[1], "/")[1], 0)
        cp == DigitsValue(Split(parts[2], "/")[1], 0)
    IN  IF Len(parts) >= 2 /\ ValidPort(hp) /\ ValidPort(cp) THEN <<hp, cp>> ELSE <<0, 0>>

\* if serviceName != "" { break }: leaving the service ends the scan.
LeavingEnds(serviceName) == serviceName # <<>>

\* parseComposePort: the loop over the lines, with inServices, inService,
\* inPorts and serviceIndent in st.
RECURSIVE ComposeScan(_, _, _)
ComposeScan(lines, serviceName, st) ==
    IF lines = <<>> THEN <<0, 0>>
    ELSE LET line == Head(lines)
             trimmed == TrimSpace(line)
             indent == Len(line) - Len(TrimLeft(line))
             isEntry == HasPrefix(trimmed, <<"-">>)
             afterPorts == IF st.inPorts /\ ~isEntry THEN [st EXCEPT !.inPorts = FALSE] ELSE st
             named == /\ st.inServices
                      /\ HasSuffix(trimmed, <<":">>)
                      /\ indent > 0 /\ indent <= 4
             svcName == TrimSuffix(trimmed, <<":">>)
             leaves == /\ afterPorts.inService
                       /\ afterPorts.serviceIndent >= 0
                       /\ indent <= afterPorts.serviceIndent
                       /\ ~isEntry
         IN  IF trimmed = <<>> \/ HasPrefix(trimmed, <<"#">>)
             THEN ComposeScan(Tail(lines), serviceName, st)
             ELSE IF trimmed = <<"s", "e", "r", "v", "i", "c", "e", "s", ":">>
             THEN ComposeScan(Tail(lines), serviceName,
                              [st EXCEPT !.inServices = TRUE, !.serviceIndent = -1])
             ELSE IF st.inService /\ trimmed = <<"p", "o", "r", "t", "s", ":">>
             THEN ComposeScan(Tail(lines), serviceName, [st EXCEPT !.inPorts = TRUE])
             ELSE IF st.inPorts /\ isEntry /\ PortEntry(trimmed) # <<0, 0>>
             THEN PortEntry(trimmed)
             ELSE IF named /\ isComposeKeyword(svcName)
             THEN ComposeScan(Tail(lines), serviceName, afterPorts)
             ELSE IF named /\ (serviceName = <<>> \/ svcName = serviceName)
             THEN ComposeScan(Tail(lines), serviceName,
                              [afterPorts EXCEPT !.inService = TRUE, !.serviceIndent = indent,
                                                 !.inPorts = FALSE])
             ELSE IF leaves /\ LeavingEnds(serviceName)
             THEN <<0, 0>>
             ELSE IF leaves
             THEN ComposeScan(Tail(lines), serviceName,
                              [afterPorts EXCEPT !.inService = FALSE, !.inPorts = FALSE])
             ELSE ComposeScan(Tail(lines), serviceName, afterPorts)

\* parseComposePort
parseComposePort(content, serviceName) ==
    IF content = <<>> THEN <<0, 0>>
    ELSE ComposeScan(Split(content, "\n"), serviceName,
                     [inServices |-> FALSE, inService |-> FALSE, inPorts |-> FALSE,
                      serviceIndent |-> -1])

(***************************************************************************)
(* detector: what a repository holds to deploy it.                         *)
(***************************************************************************)
defaultDockerfileTemplate ==
    "FROM alpine:3.20\nWORKDIR /app\nCOPY . .\nEXPOSE 8080\nCMD [\"busybox\", \"httpd\", \"-f\", \"-p\", \"8080\", \"-h\", \"/app\"]\n"

defaultComposeTemplate ==
    "version: \"3.8\"\nservices:\n  app:\n    build: .\n    ports:\n      - \"8080:8080\"\n"

\* The candidates in the other order of the two compose.* names.
composeCandidatesYamlFirst ==
    <<"docker-compose.yml", "docker-compose.yaml", "compose.yaml", "compose.yml">>

composeCandidates ==
    <<"docker-compose.yml", "docker-compose.yaml", "compose.yml", "compose.yaml">>

dockerfileRel == "Dockerfile"

\* A name of the repository directory: no such file, one that os.ReadFile
\* cannot read (a directory, a file without permission), a file with its
\* content.
NoFile == [state |-> "absent", content |-> ""]
Unreadable == [state |-> "unreadable", content |-> ""]
File(content) == [state |-> "file", content |-> content]

\* readFileIfExists: the content and true; "" and false for ErrNotExist;
\* the error for any other failure.
readFileIfExists(dir, rel) ==
    CASE dir[rel].state = "file" -> [content |-> dir[rel].content, ok |-> TRUE, err |-> FALSE]
      [] dir[rel].state = "absent" -> [content |-> "", ok |-> FALSE, err |-> FALSE]
      [] OTHER -> [content |-> "", ok |-> FALSE, err |-> TRUE]

\* parseComposeServices of the detector: yaml.Unmarshal of the content and
\* the sorted keys of its services map, for the contents of the model.
detectorParseComposeServices(content) ==
    CASE content = "services: [\n" -> [err |-> TRUE, services |-> <<>>]
      [] content = "services:\n  web: {}\n" -> [err |-> FALSE, services |-> <<"web">>]
      [] content = "services:\n  b: {}\n  a: {}\n" -> [err |-> FALSE, services |-> <<"a", "b">>]
      [] content = "services:\n  \"\": {}\n" -> [err |-> TRUE, services |-> <<>>]
      [] OTHER -> [err |-> FALSE, services |-> <<>>]

DetectFailed ==
    [err |-> TRUE, DeployType |-> "", DockerfilePath |-> "", DockerfileContent |-> "",
     ComposePath |-> "", ComposeContent |-> "", Services |-> <<>>]

\* The loop over composeCandidates from its i-th element on.
RECURSIVE FirstCompose(_, _)
FirstCompose(dir, i) ==
    IF i > Len(composeCandidates)
    THEN [err |-> FALSE, composePath |-> "", composeContent |-> "", services |-> <<>>]
    ELSE LET rel == composeCandidates[i]
             read == readFileIfExists(dir, rel)
             parsed == detectorParseComposeServices(read.content)
         IN  IF read.err
             THEN [err |-> TRUE, composePath |-> "", composeContent |-> "", services |-> <<>>]
             ELSE IF ~read.ok THEN FirstCompose(dir, i + 1)
             ELSE IF parsed.err
             THEN [err |-> TRUE, composePath |-> rel, composeContent |-> read.content,
                   services |-> <<>>]
             ELSE [err |-> FALSE, composePath |-> rel, composeContent |-> read.content,
                   services |-> parsed.services]

Detect(repoDir, dir) ==
    IF repoDir = "" THEN DetectFailed
    ELSE LET compose == FirstCompose(dir, 1)
             read == readFileIfExists(dir, dockerfileRel)
             dockerfilePath == IF read.ok THEN dockerfileRel ELSE ""
             dockerfileContent == IF read.ok THEN read.content ELSE ""
         IN  IF compose.err \/ read.err THEN DetectFailed
             ELSE IF compose.composePath # ""
             THEN [err |-> FALSE, DeployType |-> "compose",
                   DockerfilePath |-> dockerfilePath,
                   DockerfileContent |-> IF dockerfileContent = ""
                                         THEN defaultDockerfileTemplate
                                         ELSE dockerfileContent,
                   ComposePath |-> compose.composePath,
                   ComposeContent |-> compose.composeContent,
                   Services |-> compose.services]
             ELSE IF dockerfilePath # ""
             THEN [err |-> FALSE, DeployType |-> "dockerfile",
                   DockerfilePath |-> dockerfilePath,
                   DockerfileContent |-> dockerfileContent,
                   ComposePath |-> "", ComposeContent |-> defaultComposeTemplate,
                   Services |-> <<>>]
             ELSE [err |-> FALSE, DeployType |-> "none",
                   DockerfilePath |-> "",
                   DockerfileContent |-> defaultDockerfileTemplate,
                   ComposePath |-> "", ComposeContent |-> defaultComposeTemplate,
                   Services |-> <<>>]

(***************************************************************************)
(* main: startup recovery, starting the worker, serving, exiting.          *)
(***************************************************************************)
\* EnqueuePersisted: jobs, err := st.ListJobsByStatus(ctx, queued); on an
\* error it returns at once and main only logs it.
RecoverList ==
    /\ mainPc = "recover"
    /\ IF ctxDone
       THEN /\ mainPc' = "startWorker"
            /\ recJobs' = <<>>
       ELSE /\ mainPc' = "enqueue"
            /\ recJobs' \in ListJobsByStatus(jobs, JobStatusQueued)
    /\ UNCHANGED <<jobs, projects, repos, ch, ctxDone, sending, worker,
                   enqLog, deqLog, recLog, runs, ops, dups, persisted, docker, call>>

\* EnqueuePersisted: for _, j := range jobs { q.Enqueue(j.ID) }
RecoverEnqueue ==
    /\ mainPc = "enqueue"
    /\ recJobs # <<>>
    /\ ch' \in Enqueue(ch, Head(recJobs))
    /\ recJobs' = Tail(recJobs)
    /\ enqLog' = Append(enqLog, Head(recJobs))
    /\ recLog' = Append(recLog, Head(recJobs))
    /\ UNCHANGED <<jobs, projects, repos, ctxDone, mainPc, sending, worker,
                   deqLog, runs, ops, dups, persisted, docker, call>>

\* EnqueuePersisted returns nil after the loop.
RecoverDone ==
    /\ mainPc = "enqueue"
    /\ recJobs = <<>>
    /\ mainPc' = "startWorker"
    /\ UNCHANGED <<jobs, projects, repos, ch, ctxDone, recJobs, sending, worker,
                   enqLog, deqLog, recLog, runs, ops, dups, persisted, docker, call>>

\* worker := jobs.NewWorker(...); go worker.Run(ctx); then the router and the
\* HTTP server are set up and main blocks in ListenAndServe.
StartWorker ==
    /\ mainPc = "startWorker"
    /\ mainPc' = "serve"
    /\ worker' = [w \in WorkerGoroutines |-> [IdleWorker EXCEPT !.pc = "select"]]
    /\ UNCHANGED <<jobs, projects, repos, ch, ctxDone, recJobs, sending,
                   enqLog, deqLog, recLog, runs, ops, dups, persisted, docker, call>>

\* SIGINT or SIGTERM: signal.NotifyContext cancels ctx.
Shutdown ==
    /\ Alive
    /\ ~ctxDone
    /\ ctxDone' = TRUE
    /\ UNCHANGED <<jobs, projects, repos, ch, mainPc, recJobs, sending, worker,
                   enqLog, deqLog, recLog, runs, ops, dups, persisted, docker, call>>

\* <-ctx.Done(); srv.Shutdown: ListenAndServe returns ErrServerClosed and main
\* returns, which ends the process and every goroutine with it.
ProcessExit ==
    /\ mainPc = "serve"
    /\ ctxDone
    /\ mainPc' = "exited"
    /\ UNCHANGED <<jobs, projects, repos, ch, ctxDone, recJobs, sending, worker,
                   enqLog, deqLog, recLog, runs, ops, dups, persisted, docker, call>>

\* The process ends, because main returned or because it was killed at any
\* point, and is started again on the same database file, working copies
\* and daemon: main opens the store and builds queue and worker anew.
Restart ==
    /\ ch' = <<>>
    /\ ctxDone' = FALSE
    /\ mainPc' = "recover"
    /\ recJobs' = <<>>
    /\ sending' = {}
    /\ worker' = [w \in WorkerGoroutines |-> IdleWorker]
    /\ enqLog' = <<>>
    /\ deqLog' = <<>>
    /\ recLog' = <<>>
    /\ runs' = [j \in DOMAIN runs |-> 0]
    /\ ops' = {}
    /\ dups' = 0
    /\ persisted' = jobs
    /\ UNCHANGED <<jobs, projects, repos, docker, call>>

(***************************************************************************)
(* The API layer: Server.enqueueJob and Server.createJob, and a caller     *)
(* that hands an identifier to Queue.Enqueue again.                        *)
(***************************************************************************)
\* newID: an identifier no row has yet.
FreshIds == {id \in JobIds : id \notin DOMAIN jobs /\ \A k \in 1..(id - 1) : k \in DOMAIN jobs}

\* enqueueJob up to the insert in createJob, in a handler goroutine of its
\* own: the project must be found (404 otherwise), then st.CreateJob inserts
\* the row with status queued.
RequestJob(p, t) ==
    /\ mainPc = "serve"
    /\ ~ctxDone
    /\ GetProjectFound(projects, p)
    /\ \E id \in FreshIds :
          /\ jobs' = CreateJob(jobs, id, p, t)
          /\ sending' = sending \cup {id}
    /\ UNCHANGED <<projects, repos, ch, ctxDone, mainPc, recJobs, worker,
                   enqLog, deqLog, recLog, runs, ops, dups, persisted, docker, call>>

\* createJob: s.queue.Enqueue(job.ID), then the handler answers.  The send
\* completes when the buffer has room; callers blocked on a full buffer
\* complete in any order.
HandlerEnqueue(id) ==
    /\ Alive
    /\ id \in sending
    /\ ch' \in Enqueue(ch, id)
    /\ enqLog' = Append(enqLog, id)
    /\ sending' = sending \ {id}
    /\ UNCHANGED <<jobs, projects, repos, ctxDone, mainPc, recJobs, worker,
                   deqLog, recLog, runs, ops, dups, persisted, docker, call>>

\* A caller enters Queue.Enqueue with the identifier of an existing row
\* (duplicate delivery; the queue does not deduplicate).
Redeliver(j) ==
    /\ mainPc = "serve"
    /\ j \in DOMAIN jobs
    /\ j \notin sending
    /\ dups < MaxDuplicates
    /\ dups' = dups + 1
    /\ sending' = sending \cup {j}
    /\ UNCHANGED <<jobs, projects, repos, ch, ctxDone, mainPc, recJobs, worker,
                   enqLog, deqLog, recLog, runs, ops, persisted, docker, call>>

(***************************************************************************)
(* Package jobs: the worker.  One action per store call or external        *)
(* operation of Worker.Run, runJob, fail, deploy and their helpers.        *)
(***************************************************************************)
At(w, pc) == Alive /\ worker[w].pc = pc

Goto(w, pc) == worker' = [worker EXCEPT ![w].pc = pc]

GotoErr(w, pc, err) == worker' = [worker EXCEPT ![w].pc = pc, ![w].err = err]

\* A call on table jobs with the worker's ctx; its error is discarded (_ =).
JobWrite(w, from, to, newJobs) ==
    /\ At(w, from)
    /\ jobs' = Exec(newJobs, jobs)
    /\ Goto(w, to)
    /\ UNCHANGED <<projects, repos, ch, ctxDone, mainPc, recJobs, sending,
                   enqLog, deqLog, recLog, runs, ops, dups, persisted, docker, call>>

\* A call on table projects with the worker's ctx; its error is discarded.
ProjectWrite(w, from, to, newProjects) ==
    /\ At(w, from)
    /\ projects' = Exec(newProjects, projects)
    /\ Goto(w, to)
    /\ UNCHANGED <<jobs, repos, ch, ctxDone, mainPc, recJobs, sending,
                   enqLog, deqLog, recLog, runs, ops, dups, persisted, docker, call>>

\* What an external operation can return: an operation that takes ctx (a
\* subprocess of exec.CommandContext, a Docker API call, a git transfer)
\* fails once ctx is cancelled; otherwise it succeeds or fails.
Outcomes(takesCtx) == IF takesCtx /\ ctxDone THEN {"err"} ELSE {"ok", "err"}

\* An external operation that leaves the modelled state alone.
External(w, from, op, takesCtx, okPc, errPc, err) ==
    /\ At(w, from)
    /\ ops' = ops \cup {<<worker[w].jobID, op>>}
    /\ \E r \in Outcomes(takesCtx) :
          IF r = "ok" THEN Goto(w, okPc) ELSE GotoErr(w, errPc, err)
    /\ UNCHANGED <<jobs, projects, repos, ch, ctxDone, mainPc, recJobs, sending,
                   enqLog, deqLog, recLog, runs, dups, persisted, docker, call>>

\* A call of the engine that acts on the daemon: results is the set of
\* <<result, daemon afterwards>> the call can produce.
EngineCall(w, from, op, results, okPc, errPc, err) ==
    /\ At(w, from)
    /\ ops' = ops \cup {<<worker[w].jobID, op>>}
    /\ \E r \in results :
          /\ docker' = r[2]
          /\ IF r[1] = "ok" THEN Goto(w, okPc) ELSE GotoErr(w, errPc, err)
    /\ UNCHANGED <<jobs, projects, repos, ch, ctxDone, mainPc, recJobs, sending,
                   enqLog, deqLog, recLog, runs, dups, persisted, call>>

\* A call of the engine whose error is discarded (_ =); the history keeps
\* that it did not do all of its work.
Swallowed(w, from, op, results, to) ==
    /\ At(w, from)
    /\ \E r \in results :
          /\ docker' = r[2]
          /\ ops' = ops \cup {<<worker[w].jobID, op>>}
                        \cup (IF r[1] = "ok" THEN {} ELSE {<<worker[w].jobID, op, "failed">>})
    /\ Goto(w, to)
    /\ UNCHANGED <<jobs, projects, repos, ch, ctxDone, mainPc, recJobs, sending,
                   enqLog, deqLog, recLog, runs, dups, persisted, call>>

\* Worker.Run: case <-ctx.Done(): return
WorkerReturn(w) ==
    /\ At(w, "select")
    /\ ctxDone
    /\ Goto(w, "returned")
    /\ UNCHANGED <<jobs, projects, repos, ch, ctxDone, mainPc, recJobs, sending,
                   enqLog, deqLog, recLog, runs, ops, dups, persisted, docker, call>>

\* Worker.Run: case jobID := <-w.queue.C(): w.runJob(ctx, jobID).  When both
\* cases are ready, select takes either.
WorkerReceive(w) ==
    /\ At(w, "select")
    /\ \E r \in Receive(ch) :
          /\ ch' = r[2]
          /\ deqLog' = Append(deqLog, r[1])
          /\ worker' = [worker EXCEPT ![w] = [IdleWorker EXCEPT !.pc = "runJob", !.jobID = r[1]]]
    /\ UNCHANGED <<jobs, projects, repos, ctxDone, mainPc, recJobs, sending,
                   enqLog, recLog, runs, ops, dups, persisted, docker, call>>

\* A check that lets every status through.
JobIsAnyStatus(job) == job.status \in JobStatuses

\* runJob: if job.Status != store.JobStatusQueued { return }
JobIsQueued(job) == job.status = JobStatusQueued

\* runJob: job, err := w.st.GetJob(ctx, jobID); return on an error and on a
\* status that is not queued.
RunJobGetJob(w) ==
    /\ At(w, "runJob")
    /\ LET id == worker[w].jobID IN
       IF ~ctxDone /\ GetJobFound(jobs, id) /\ JobIsQueued(jobs[id])
       THEN /\ worker' = [worker EXCEPT ![w].pc = "setJobRunning", ![w].job = jobs[id]]
            /\ runs' = [runs EXCEPT ![id] = @ + 1]
       ELSE /\ Goto(w, "select")
            /\ UNCHANGED runs
    /\ UNCHANGED <<jobs, projects, repos, ch, ctxDone, mainPc, recJobs, sending,
                   enqLog, deqLog, recLog, ops, dups, persisted, docker, call>>

\* runJob: _ = w.st.SetJobRunning(ctx, jobID, "init")
RunJobSetRunning(w) ==
    JobWrite(w, "setJobRunning", "logStarted", SetJobRunning(jobs, worker[w].jobID, "init"))

\* runJob: _ = w.st.AppendJobLog(ctx, jobID, "<time> job started\n")
RunJobLogStarted(w) ==
    JobWrite(w, "logStarted", "getProject", AppendJobLog(jobs, worker[w].jobID, "job started"))

\* The four operations that only change the state of what is deployed.
LifecycleTypes == {JobTypeStart, JobTypeStop, JobTypePause, JobTypeUnpause}

\* runJob: switch job.Type: where each operation begins; "" for the default
\* case, which is the error unknown job type.  start, stop, pause and
\* unpause begin with switch engine.ResolveDeployType(...): cloneProject for
\* compose, engine.NewDocker() otherwise.
OperationEntry(type, project) ==
    CASE type = JobTypeDeploy -> "deploy"
      [] type = JobTypeDelete -> "deleteDocker"
      [] type \in LifecycleTypes ->
           IF ResolveDeployType(project.deploy_type, project.compose_file) = DeployTypeCompose
           THEN "cloneStep"
           ELSE "lifecycleDocker"
      [] OTHER -> ""

\* runJob: project, err := w.st.GetProject(ctx, job.ProjectID), then the
\* switch on job.Type.
RunJobGetProject(w) ==
    /\ At(w, "getProject")
    /\ LET pid == worker[w].job.project_id IN
       IF ctxDone \/ ~GetProjectFound(projects, pid)
       THEN GotoErr(w, "fail", "load project")
       ELSE IF OperationEntry(worker[w].job.type, projects[pid]) = ""
            THEN worker' = [worker EXCEPT ![w].pc = "fail", ![w].err = "unknown job type",
                                          ![w].project = [id |-> pid] @@ projects[pid]]
            ELSE worker' = [worker EXCEPT ![w].pc = OperationEntry(worker[w].job.type, projects[pid]),
                                          ![w].project = [id |-> pid] @@ projects[pid]]
    /\ UNCHANGED <<jobs, projects, repos, ch, ctxDone, mainPc, recJobs, sending,
                   enqLog, deqLog, recLog, runs, ops, dups, persisted, docker, call>>

\* fail: _ = w.st.AppendJobLog(ctx, jobID, "<time> error: <err>\n")
FailLog(w) ==
    JobWrite(w, "fail", "setJobFailed",
             AppendJobLog(jobs, worker[w].jobID, "error: " \o worker[w].err))

\* fail: _ = w.st.SetJobFailed(ctx, jobID, err.Error()); runJob returns.
FailSetFailed(w) ==
    JobWrite(w, "setJobFailed", "select", SetJobFailed(jobs, worker[w].jobID, worker[w].err))

\* runJob: _ = w.st.AppendJobLog(ctx, jobID, "<time> job finished\n")
RunJobLogFinished(w) ==
    JobWrite(w, "logFinished", "setJobSucceeded",
             AppendJobLog(jobs, worker[w].jobID, "job finished"))

\* runJob: _ = w.st.SetJobSucceeded(ctx, jobID); runJob returns.
RunJobSetSucceeded(w) ==
    JobWrite(w, "setJobSucceeded", "select", SetJobSucceeded(jobs, worker[w].jobID))

(***************************************************************************)
(* Worker.deploy, cloneProject, composeUp and dockerfileDeploy.            *)
(***************************************************************************)
\* Every error goes straight back to runJob.
ErrorExitToRunJob(type) == "fail"

\* Every error marks the project failed first.
ErrorExitMarksProjectFailed(type) == "deployFailed"

\* Where an operation goes when one of its steps returns an error: deploy
\* first marks the project failed, every other operation returns the error
\* to runJob.
ErrorExit(type) == IF type = JobTypeDeploy THEN "deployFailed" ELSE "fail"

\* deploy, after the files are written:
\* switch engine.ResolveDeployType(project.DeployType, project.ComposeFile)
DeployEngineEntry(project) ==
    IF ResolveDeployType(project.deploy_type, project.compose_file) = DeployTypeCompose
    THEN "composeUpStep"
    ELSE "newDocker"

\* deploy, after the Dockerfile: if project.ComposeContent != "" &&
\* project.ComposeFile != "" the compose text is written, else the engine
\* is chosen at once.
AfterDockerfile(project) ==
    IF project.compose_content # "" /\ project.compose_file # ""
    THEN "writeCompose"
    ELSE DeployEngineEntry(project)

\* deploy, after workspace.WorkDir succeeded: if project.DockerfileContent != ""
\* && project.DockerfilePath != "" the Dockerfile text is written.
AfterWorkDir(project) ==
    IF project.dockerfile_content # "" /\ project.dockerfile_path # ""
    THEN "writeDockerfile"
    ELSE AfterDockerfile(project)

\* deploy: _ = w.st.SetJobStep(ctx, jobID, "set_project_status")
DeploySetStep(w) ==
    JobWrite(w, "deploy", "deployStatus",
             SetJobStep(jobs, worker[w].jobID, "set_project_status"))

\* deploy: _ = w.st.SetProjectStatus(ctx, project.ID, store.ProjectStatusDeploying)
DeploySetDeploying(w) ==
    ProjectWrite(w, "deployStatus", "cloneStep",
                 SetProjectStatus(projects, worker[w].project.id, ProjectStatusDeploying))

\* cloneProject: _ = w.st.SetJobStep(ctx, jobID, "sync_repo")
CloneSetStep(w) ==
    JobWrite(w, "cloneStep", "cloneLog", SetJobStep(jobs, worker[w].jobID, "sync_repo"))

\* cloneProject: os.Stat(repoDir/.git) chooses the log line.
CloneLog(w) ==
    JobWrite(w, "cloneLog", "cloneRepo",
             AppendJobLog(jobs, worker[w].jobID,
                          IF worker[w].project.id \in repos THEN "fetching" ELSE "cloning"))

\* start, stop, pause, unpause of a compose project, after cloneProject:
\* composeUp, composeStop, composePause, composeUnpause.
AfterClone(type) == IF type = JobTypeStart THEN "composeUpStep" ELSE "composeStep"

\* cloneProject: return engine.CloneRepo(ctx, project.GitURL, project.GitRef, repoDir);
\* then, in deploy: workDir, err := workspace.WorkDir(w.cfg, project)
CloneRun(w) ==
    /\ At(w, "cloneRepo")
    /\ ops' = ops \cup {<<worker[w].jobID, "git sync">>}
    /\ \E r \in SyncOutcomes(worker[w].project.id \in repos) :
          /\ repos' = IF r[2] THEN repos \cup {worker[w].project.id}
                              ELSE repos \ {worker[w].project.id}
          /\ IF r[1] # "ok"
             THEN GotoErr(w, ErrorExit(worker[w].job.type), "git sync")
             ELSE IF worker[w].job.type # JobTypeDeploy
                  THEN Goto(w, AfterClone(worker[w].job.type))
                  ELSE IF WorkDirFails(worker[w].project)
                       THEN GotoErr(w, "deployFailed", "work dir")
                       ELSE Goto(w, AfterWorkDir(worker[w].project))
    /\ UNCHANGED <<jobs, projects, ch, ctxDone, mainPc, recJobs, sending,
                   enqLog, deqLog, recLog, runs, dups, persisted, docker, call>>

\* deploy: os.WriteFile(filepath.Join(workDir, project.DockerfilePath), ...)
DeployWriteDockerfile(w) ==
    External(w, "writeDockerfile", "write Dockerfile", FALSE,
             "logDockerfile", "deployFailed", "write dockerfile")

\* deploy: _ = w.st.AppendJobLog(ctx, jobID, "wrote Dockerfile to ...")
DeployLogDockerfile(w) ==
    JobWrite(w, "logDockerfile", AfterDockerfile(worker[w].project),
             AppendJobLog(jobs, worker[w].jobID, "wrote Dockerfile"))

\* deploy: os.WriteFile(filepath.Join(workDir, project.ComposeFile), ...)
DeployWriteCompose(w) ==
    External(w, "writeCompose", "write compose", FALSE,
             "logCompose", "deployFailed", "write compose")

\* deploy: _ = w.st.AppendJobLog(ctx, jobID, "wrote docker-compose to ...")
DeployLogCompose(w) ==
    JobWrite(w, "logCompose", DeployEngineEntry(worker[w].project),
             AppendJobLog(jobs, worker[w].jobID, "wrote docker-compose"))

\* composeUp: _ = w.st.SetJobStep(ctx, jobID, "compose_up")
ComposeUpSetStep(w) ==
    JobWrite(w, "composeUpStep", "composeUp", SetJobStep(jobs, worker[w].jobID, "compose_up"))

\* Where an operation goes when its last step succeeded: each operation
\* ends with its own SetProjectStatus.
AfterOperation(type) == IF type = JobTypeDeploy THEN "deployRunning" ELSE "lifecycleStatus"

\* composeUp, composeStop, ...: workDir, err := workspace.WorkDir(w.cfg, project),
\* then the call of the engine with the ComposeSpec of the project.
ComposeInvoke(w, from, sub, err) ==
    /\ At(w, from)
    /\ IF WorkDirFails(worker[w].project)
       THEN /\ GotoErr(w, ErrorExit(worker[w].job.type), "work dir")
            /\ UNCHANGED <<jobs, projects, repos, ch, ctxDone, mainPc, recJobs, sending,
                           enqLog, deqLog, recLog, runs, ops, dups, persisted, docker, call>>
       ELSE EngineCall(w, from, "compose " \o sub,
                       {<<r.result, r.docker>> :
                          r \in runComposeUpStop(docker, ComposeSpec(worker[w].project, "workdir"), sub)},
                       AfterOperation(worker[w].job.type), ErrorExit(worker[w].job.type), err)

\* composeUp: WorkDir, then engine.ComposeUp, which runs `docker compose up -d`
\* under exec.CommandContext(ctx, ...).
ComposeUpRun(w) == ComposeInvoke(w, "composeUp", "up", "docker compose up")

\* The compose subcommand of composeStop, composePause, composeUnpause.
ComposeSub(type) ==
    CASE type = JobTypeStop -> "stop"
      [] type = JobTypePause -> "pause"
      [] type = JobTypeUnpause -> "unpause"
      [] OTHER -> "up"

\* composeStop, composePause, composeUnpause:
\* _ = w.st.SetJobStep(ctx, jobID, "compose_stop" | "compose_pause" | "compose_unpause")
ComposeSetStep(w) ==
    JobWrite(w, "composeStep", "composeRun",
             SetJobStep(jobs, worker[w].jobID, "compose_" \o ComposeSub(worker[w].job.type)))

\* composeStop, composePause, composeUnpause: WorkDir, then engine.ComposeStop,
\* engine.ComposePause, engine.ComposeUnpause.
ComposeRun(w) ==
    ComposeInvoke(w, "composeRun", ComposeSub(worker[w].job.type),
                  "docker compose " \o ComposeSub(worker[w].job.type))

\* dockerfileDeploy: dk, err := engine.NewDocker()
DockerfileNewDocker(w) ==
    External(w, "newDocker", "docker client", FALSE, "cleanupStep", "deployFailed",
             "docker client")

\* dockerfileDeploy: _ = w.st.SetJobStep(ctx, jobID, "docker_cleanup")
DockerfileCleanupStep(w) ==
    JobWrite(w, "cleanupStep", "removeContainers",
             SetJobStep(jobs, worker[w].jobID, "docker_cleanup"))

\* dockerfileDeploy: dk.RemoveProjectContainers(ctx, project.ID), then
\* workDir, err := workspace.WorkDir(w.cfg, project)
DockerfileRemoveContainers(w) ==
    /\ At(w, "removeContainers")
    /\ ops' = ops \cup {<<worker[w].jobID, "remove containers">>}
    /\ \E r \in RemoveProjectContainers(docker, worker[w].project.id) :
          /\ docker' = r[2]
          /\ IF r[1] # "ok"
             THEN GotoErr(w, "deployFailed", "remove containers")
             ELSE IF WorkDirFails(worker[w].project)
                  THEN GotoErr(w, "deployFailed", "work dir")
                  ELSE Goto(w, "buildStep")
    /\ UNCHANGED <<jobs, projects, repos, ch, ctxDone, mainPc, recJobs, sending,
                   enqLog, deqLog, recLog, runs, dups, persisted, call>>

\* dockerfileDeploy: _ = w.st.SetJobStep(ctx, jobID, "docker_build")
DockerfileBuildStep(w) ==
    JobWrite(w, "buildStep", "buildImage", SetJobStep(jobs, worker[w].jobID, "docker_build"))

\* A build whose error is not returned: the container is run all the same.
DockerfileBuildThenRunAnyway(w) ==
    EngineCall(w, "buildImage", "build image",
               BuildProjectImage(docker, worker[w].project.id, "workdir"),
               "runStep", "runStep", "docker build")

\* dockerfileDeploy: dk.BuildProjectImage(ctx, ...)
DockerfileBuild(w) ==
    EngineCall(w, "buildImage", "build image",
               BuildProjectImage(docker, worker[w].project.id, "workdir"),
               "runStep", "deployFailed", "docker build")

\* dockerfileDeploy: _ = w.st.SetJobStep(ctx, jobID, "docker_run")
DockerfileRunStep(w) ==
    JobWrite(w, "runStep", "runContainer", SetJobStep(jobs, worker[w].jobID, "docker_run"))

\* dockerfileDeploy: return dk.RunProjectContainer(ctx, ...)
DockerfileRun(w) ==
    EngineCall(w, "runContainer", "run container",
               RunProjectContainer(docker, worker[w].project.id, worker[w].project.host_port,
                                   worker[w].project.container_port),
               "deployRunning", "deployFailed", "docker run")

(***************************************************************************)
(* start, stop, pause, unpause of a Dockerfile project, and what the four  *)
(* operations end with.                                                    *)
(***************************************************************************)
\* start, stop, pause, unpause: dk, err := engine.NewDocker(); if err != nil { return err }
LifecycleNewDocker(w) ==
    External(w, "lifecycleDocker", "docker client", FALSE, "lifecycleStep", "fail",
             "docker client")

\* start, stop, pause, unpause:
\* _ = w.st.SetJobStep(ctx, jobID, "docker_start" | "docker_stop" | "docker_pause" | "docker_unpause")
LifecycleSetStep(w) ==
    JobWrite(w, "lifecycleStep", "lifecycleContainers",
             SetJobStep(jobs, worker[w].jobID, "docker_" \o worker[w].job.type))

\* The call of the engine each of the four operations makes on the
\* containers of the project.
LifecycleContainers(d, type, projectID) ==
    CASE type = JobTypeStart -> StartProjectContainers(d, projectID)
      [] type = JobTypeStop -> StopProjectContainers(d, projectID)
      [] type = JobTypePause -> PauseProjectContainers(d, projectID)
      [] OTHER -> UnpauseProjectContainers(d, projectID)

\* start, stop, pause, unpause: n, err := dk.<Op>ProjectContainers(ctx, project.ID)
LifecycleRun(w) ==
    EngineCall(w, "lifecycleContainers", "containers " \o worker[w].job.type,
               LifecycleContainers(docker, worker[w].job.type, worker[w].project.id),
               "lifecycleLog", "fail", "docker " \o worker[w].job.type)

\* start, stop, pause, unpause: _ = w.st.AppendJobLog(ctx, jobID, "<done> %d container(s)\n")
LifecycleLog(w) ==
    JobWrite(w, "lifecycleLog", "lifecycleStatus",
             AppendJobLog(jobs, worker[w].jobID, worker[w].job.type \o " container(s)"))

\* Every operation leaves the project running.
LifecycleStatusAlwaysRunning(type) == ProjectStatusRunning

\* The status each of the four operations writes when it succeeded.
LifecycleStatus(type) ==
    CASE type = JobTypeStart -> ProjectStatusRunning
      [] type = JobTypeStop -> ProjectStatusStopped
      [] type = JobTypePause -> ProjectStatusPaused
      [] OTHER -> ProjectStatusRunning

\* start, stop, pause, unpause:
\* _ = w.st.SetProjectStatus(ctx, project.ID, store.ProjectStatus...); return nil
LifecycleSetStatus(w) ==
    ProjectWrite(w, "lifecycleStatus", "logFinished",
                 SetProjectStatus(projects, worker[w].project.id,
                                  LifecycleStatus(worker[w].job.type)))

(***************************************************************************)
(* delete.                                                                 *)
(***************************************************************************)
\* delete: dk, err := engine.NewDocker(); if err != nil { return err }
DeleteNewDocker(w) ==
    External(w, "deleteDocker", "docker client", FALSE, "deleteStep", "fail", "docker client")

\* delete: _ = w.st.SetJobStep(ctx, jobID, "docker_cleanup")
DeleteCleanupStep(w) ==
    JobWrite(w, "deleteStep", "deleteContainers",
             SetJobStep(jobs, worker[w].jobID, "docker_cleanup"))

\* delete: _ = dk.RemoveProjectContainers(ctx, project.ID)
DeleteRemoveContainers(w) ==
    Swallowed(w, "deleteContainers", "remove containers",
              RemoveProjectContainers(docker, worker[w].project.id), "deleteNetworks")

\* delete: _ = dk.RemoveProjectNetworks(ctx, project.ID)
DeleteRemoveNetworks(w) ==
    Swallowed(w, "deleteNetworks", "remove networks",
              RemoveProjectNetworks(docker, worker[w].project.id), "deleteImage")

\* delete: _ = dk.RemoveProjectImage(ctx, project.ID)
DeleteRemoveImage(w) ==
    Swallowed(w, "deleteImage", "remove image",
              RemoveProjectImage(docker, worker[w].project.id), "removeRepoStep")

\* delete: _ = w.st.SetJobStep(ctx, jobID, "remove_repo")
DeleteRepoStep(w) ==
    JobWrite(w, "removeRepoStep", "removeRepo", SetJobStep(jobs, worker[w].jobID, "remove_repo"))

\* delete: _ = os.RemoveAll(workspace.RepoDir(w.cfg, project.ID))
DeleteRemoveRepo(w) ==
    /\ At(w, "removeRepo")
    /\ \E r \in Outcomes(FALSE) :
          /\ repos' = IF r = "ok" THEN repos \ {worker[w].project.id} ELSE repos
          /\ ops' = ops \cup {<<worker[w].jobID, "remove repo">>}
                        \cup (IF r = "ok" THEN {} ELSE {<<worker[w].jobID, "remove repo", "failed">>})
    /\ Goto(w, "markDeletedStep")
    /\ UNCHANGED <<jobs, projects, ch, ctxDone, mainPc, recJobs, sending,
                   enqLog, deqLog, recLog, runs, dups, persisted, docker, call>>

\* delete: _ = w.st.SetJobStep(ctx, jobID, "mark_deleted")
DeleteMarkStep(w) ==
    JobWrite(w, "markDeletedStep", "markDeleted",
             SetJobStep(jobs, worker[w].jobID, "mark_deleted"))

\* delete: return w.st.MarkProjectDeleted(ctx, project.ID)
DeleteMarkDeleted(w) ==
    /\ At(w, "markDeleted")
    /\ IF ctxDone
       THEN /\ GotoErr(w, "fail", "context canceled")
            /\ UNCHANGED projects
       ELSE /\ projects' = MarkProjectDeleted(projects, worker[w].project.id)
            /\ Goto(w, "logFinished")
    /\ UNCHANGED <<jobs, repos, ch, ctxDone, mainPc, recJobs, sending,
                   enqLog, deqLog, recLog, runs, ops, dups, persisted, docker, call>>

\* deploy, on an error of any step:
\* _ = w.st.SetProjectStatus(ctx, project.ID, store.ProjectStatusFailed); return err
DeploySetFailed(w) ==
    ProjectWrite(w, "deployFailed", "fail",
                 SetProjectStatus(projects, worker[w].project.id, ProjectStatusFailed))

\* deploy: _ = w.st.SetProjectStatus(ctx, project.ID, store.ProjectStatusRunning); return nil
DeploySetRunning(w) ==
    ProjectWrite(w, "deployRunning", "logFinished",
                 SetProjectStatus(projects, worker[w].project.id, ProjectStatusRunning))

(***************************************************************************)
(* The specification.                                                      *)
(***************************************************************************)
MainStep ==
    \/ RecoverList
    \/ RecoverEnqueue
    \/ RecoverDone
    \/ StartWorker

WorkerStep(w) ==
    \/ WorkerReturn(w)
    \/ WorkerReceive(w)
    \/ RunJobGetJob(w)
    \/ RunJobSetRunning(w)
    \/ RunJobLogStarted(w)
    \/ RunJobGetProject(w)
    \/ FailLog(w)
    \/ FailSetFailed(w)
    \/ RunJobLogFinished(w)
    \/ RunJobSetSucceeded(w)
    \/ DeploySetStep(w)
    \/ DeploySetDeploying(w)
    \/ CloneSetStep(w)
    \/ CloneLog(w)
    \/ CloneRun(w)
    \/ DeployWriteDockerfile(w)
    \/ DeployLogDockerfile(w)
    \/ DeployWriteCompose(w)
    \/ DeployLogCompose(w)
    \/ ComposeUpSetStep(w)
    \/ ComposeUpRun(w)
    \/ DockerfileNewDocker(w)
    \/ DockerfileCleanupStep(w)
    \/ DockerfileRemoveContainers(w)
    \/ DockerfileBuildStep(w)
    \/ DockerfileBuild(w)
    \/ DockerfileRunStep(w)
    \/ DockerfileRun(w)
    \/ DeploySetFailed(w)
    \/ DeploySetRunning(w)

\* The steps of start, stop, pause, unpause and delete.
LifecycleStep(w) ==
    \/ ComposeSetStep(w)
    \/ ComposeRun(w)
    \/ LifecycleNewDocker(w)
    \/ LifecycleSetStep(w)
    \/ LifecycleRun(w)
    \/ LifecycleLog(w)
    \/ LifecycleSetStatus(w)
    \/ DeleteNewDocker(w)
    \/ DeleteCleanupStep(w)
    \/ DeleteRemoveContainers(w)
    \/ DeleteRemoveNetworks(w)
    \/ DeleteRemoveImage(w)
    \/ DeleteRepoStep(w)
    \/ DeleteRemoveRepo(w)
    \/ DeleteMarkStep(w)
    \/ DeleteMarkDeleted(w)

Next ==
    \/ MainStep
    \/ Shutdown
    \/ \E p \in Projects, t \in JobTypes : RequestJob(p, t)
    \/ \E id \in JobIds : HandlerEnqueue(id)
    \/ \E w \in WorkerGoroutines : WorkerStep(w)

Spec == Init /\ [][Next]_vars

\* The worker on one queued row of any shape of project, with callers that
\* hand known identifiers to Queue.Enqueue again, and with main returning
\* after the shutdown signal; no new requests.
WorkerNext ==
    \/ MainStep
    \/ Shutdown
    \/ ProcessExit
    \/ \E j \in DOMAIN jobs : Redeliver(j)
    \/ \E j \in DOMAIN jobs : HandlerEnqueue(j)
    \/ \E w \in WorkerGoroutines : WorkerStep(w)

WorkerSpec == WorkerInit /\ [][WorkerNext]_vars

\* What a deploy of a Dockerfile project leaves on the daemon: the image
\* with its tag and the container with its name and label.
DockerfileResources(projectID) ==
    [containers |-> {[name |-> containerName(projectID), label |-> projectID,
                      project |-> <<>>, service |-> <<>>, state |-> "running",
                      owner |-> projectID]},
     networks |-> {},
     images |-> {[tag |-> imageTag(projectID), owner |-> projectID]},
     observed |-> TRUE]

\* What a deploy of a compose project leaves: the network of the compose
\* project and a container per service brought up, labelled when the
\* project has a service selector.
ComposeResources(projectID, project) ==
    LET services == parseComposeServices(project.compose_service)
        name == composeProjectName(projectID)
    IN  [containers |-> {[name |-> name \o <<"-">> \o svc \o <<"-1">>,
                          label |-> IF services = <<>> THEN "" ELSE projectID,
                          project |-> name, service |-> svc, state |-> "running",
                          owner |-> projectID] :
                           svc \in IF services = <<>> THEN ComposeFileServices ELSE Range(services)},
         networks |-> {[name |-> name \o <<"_default">>, owner |-> projectID]},
         images |-> {},
         observed |-> TRUE]

DeployedResources(projectID, project) ==
    IF ResolveDeployType(project.deploy_type, project.compose_file) = DeployTypeCompose
    THEN ComposeResources(projectID, project)
    ELSE DockerfileResources(projectID)

\* The resources of two daemons together.
Both(d, e) ==
    [containers |-> d.containers \cup e.containers, networks |-> d.networks \cup e.networks,
     images |-> d.images \cup e.images, observed |-> TRUE]

\* A compose project made from a draft: createProjectFromDraft stores the
\* compose_service of the request trimmed and unchecked.  Nothing of it was
\* ever brought up.
MalformedProject == WithService(ComposeProject, <<"w", "/">>)

\* Rows as createProject stores them: deploy_type auto with the compose_file
\* of the request, which makes the project a compose project; deploy_type
\* dockerfile with a compose_file beside it, which does not.
InferredComposeProject == Project("auto", "docker-compose.yml", "", "Dockerfile", "", <<>>)
ExplicitDockerfileProject ==
    WithPorts(Project("dockerfile", "docker-compose.yml", "", "Dockerfile", "FROM alpine", <<>>),
              8080, 80)

\* The project shapes of the operations: compose with every service, compose
\* with a service selector, Dockerfile, soft-deleted, compose with a
\* malformed selector, compose by its compose_file alone, Dockerfile by its
\* deploy_type against its compose_file.
OperationShapes ==
    {ComposeProject, WithService(ComposeProject, <<"w">>), DockerfileProject,
     Deleted(ComposeProject), MalformedProject, InferredComposeProject,
     ExplicitDockerfileProject}

\* The statuses earlier jobs can have left on a project that is not deleted.
EarlierStatuses ==
    {ProjectStatusUnknown, ProjectStatusRunning, ProjectStatusPaused, ProjectStatusStopped,
     ProjectStatusFailed}

WithStatus(project, status) ==
    IF project.deleted_at # NullInt \/ status = ProjectStatusUnknown
    THEN project
    ELSE [project EXCEPT !.last_status = status, !.last_status_at = SomeInt(0)]

\* Every type of job, and a type the worker does not know.
OperationKinds ==
    {JobTypeDeploy, JobTypeStart, JobTypeStop, JobTypePause, JobTypeUnpause, JobTypeDelete,
     "bogus"}

\* The worker on one queued row, with the process ending at any point and
\* starting again.
RestartNext ==
    \/ MainStep
    \/ Shutdown
    \/ ProcessExit
    \/ Restart
    \/ \E w \in WorkerGoroutines : WorkerStep(w)

RestartSpec == WorkerInit /\ [][RestartNext]_vars

\* The shapes of project p2: Dockerfile, or compose with every service.
OtherShapes == {OtherProject, ComposeProject}

\* One queued job of any type on project p1, of any shape and earlier
\* status, which an earlier deploy has brought up or which was never
\* deployed (or whose resources were removed by hand); project p2 is
\* deployed beside it.
OperationInit ==
    \E type \in OperationKinds, shape \in OperationShapes, status \in EarlierStatuses,
       deployed \in BOOLEAN, other \in OtherShapes :
       /\ shape.deleted_at # NullInt => status = ProjectStatusUnknown
       /\ shape = MalformedProject => ~deployed
       /\ Start(FinishedRows @@ (1 :> PersistedJob("p1", type, JobStatusQueued, 0)),
                [p \in Projects |-> IF p = "p1" THEN WithStatus(shape, status)
                                                ELSE WithStatus(other, ProjectStatusRunning)],
                IF deployed THEN {"p1", "p2"} ELSE {"p2"},
                IF deployed
                THEN Both(DeployedResources("p1", shape), DeployedResources("p2", other))
                ELSE DeployedResources("p2", other))

\* The worker on one queued job of any type, with the daemon observed.
OperationNext ==
    \/ MainStep
    \/ Shutdown
    \/ ProcessExit
    \/ \E w \in WorkerGoroutines : WorkerStep(w)
    \/ \E w \in WorkerGoroutines : LifecycleStep(w)

OperationSpec == OperationInit /\ [][OperationNext]_vars

\* The Go scheduler runs every goroutine that can take a step: main, a
\* handler whose send can complete, the worker.  Signals and new requests
\* are up to the environment.
FairSpec ==
    /\ Spec
    /\ WF_vars(MainStep)
    /\ \A id \in JobIds : WF_vars(HandlerEnqueue(id))
    /\ \A w \in WorkerGoroutines : WF_vars(WorkerStep(w))

(***************************************************************************)
(* Package store and the handlers of the API that write table projects.    *)
(* A statement of SQLite that violates a constraint changes nothing.       *)
(***************************************************************************)
\* An index that constrains nothing.
NoHostPortIndex(ps) == TRUE

\* CREATE UNIQUE INDEX idx_projects_host_port_active ON projects(host_port)
\* WHERE deleted_at IS NULL AND host_port > 0: whether a table satisfies it.
idx_projects_host_port_active(ps) ==
    \A a \in DOMAIN ps : \A b \in DOMAIN ps :
       (/\ a # b
        /\ ps[a].deleted_at = NullInt /\ ps[a].host_port > 0
        /\ ps[b].deleted_at = NullInt /\ ps[b].host_port > 0)
       => ps[a].host_port # ps[b].host_port

\* A statement on table projects: <<error, table afterwards>>.
Statement(ps, new) ==
    IF idx_projects_host_port_active(new) THEN <<"ok", new>> ELSE <<"err", ps>>

\* Store.CreateProject: INSERT INTO projects; id is the primary key.
CreateProject(ps, id, project) ==
    IF id \in DOMAIN ps
    THEN <<"err", ps>>
    ELSE Statement(ps, (id :> [project EXCEPT !.last_status_at = NullInt,
                                              !.deleted_at = NullInt]) @@ ps)

\* Store.UpdateProjectConfig: UPDATE projects SET dockerfile_content = ?,
\* compose_content = ? WHERE id = ? AND deleted_at IS NULL
UpdateProjectConfig(ps, id, dockerfileContent, composeContent) ==
    IF id \in DOMAIN ps /\ ps[id].deleted_at = NullInt
    THEN Statement(ps, [ps EXCEPT ![id].dockerfile_content = dockerfileContent,
                                  ![id].compose_content = composeContent])
    ELSE <<"ok", ps>>

\* Store.UpdateProjectConfigWithPorts: the same with host_port = ?,
\* container_port = ?
UpdateProjectConfigWithPorts(ps, id, dockerfileContent, composeContent, hostPort, containerPort) ==
    IF id \in DOMAIN ps /\ ps[id].deleted_at = NullInt
    THEN Statement(ps, [ps EXCEPT ![id].dockerfile_content = dockerfileContent,
                                  ![id].compose_content = composeContent,
                                  ![id].host_port = hostPort,
                                  ![id].container_port = containerPort])
    ELSE <<"ok", ps>>

\* The identifiers newID can give the projects of the store, and the host
\* ports a request or a parsed configuration can carry.
StoreIds == {"p1", "p2", "p3"}
HostPorts == {0, 8080, 8081}

\* The store after Open on an empty database file.
StoreInit ==
    Start(FinishedRows, [id \in {} |-> NoProject], {}, Unobserved)

\* What a handler did last: the store call, its arguments, its error.
StoreCall(fn, id, hostPort, result) ==
    [fn |-> fn, id |-> id, hostPort |-> hostPort, result |-> result, done |-> TRUE]

\* createProject, createProjectFromDraft: s.st.CreateProject(ctx, store.Project{...})
CreateProjectRequest(id, hostPort) ==
    /\ LET r == CreateProject(projects, id,
                              WithPorts(Project("auto", "", "", "Dockerfile", "", <<>>), hostPort, 80))
       IN  /\ projects' = r[2]
           /\ call' = StoreCall("CreateProject", id, hostPort, r[1])
    /\ UNCHANGED <<jobs, repos, ch, ctxDone, mainPc, recJobs, sending, worker,
                   enqLog, deqLog, recLog, runs, ops, dups, persisted, docker>>

\* updateProjectConfig: the ports parsed from the new text are positive:
\* s.st.UpdateProjectConfigWithPorts(ctx, id, ..., hostPort, containerPort)
UpdateConfigWithPortsRequest(id, hostPort) ==
    /\ GetProjectFound(projects, id)
    /\ hostPort > 0
    /\ LET r == UpdateProjectConfigWithPorts(projects, id, "FROM alpine", "", hostPort, 80)
       IN  /\ projects' = r[2]
           /\ call' = StoreCall("UpdateProjectConfigWithPorts", id, hostPort, r[1])
    /\ UNCHANGED <<jobs, repos, ch, ctxDone, mainPc, recJobs, sending, worker,
                   enqLog, deqLog, recLog, runs, ops, dups, persisted, docker>>

\* updateProjectConfig: no port was parsed:
\* s.st.UpdateProjectConfig(ctx, id, req.DockerfileContent, req.ComposeContent)
UpdateConfigRequest(id) ==
    /\ GetProjectFound(projects, id)
    /\ LET r == UpdateProjectConfig(projects, id, "", "services:")
       IN  /\ projects' = r[2]
           /\ call' = StoreCall("UpdateProjectConfig", id, projects[id].host_port, r[1])
    /\ UNCHANGED <<jobs, repos, ch, ctxDone, mainPc, recJobs, sending, worker,
                   enqLog, deqLog, recLog, runs, ops, dups, persisted, docker>>

\* The last step of a delete job: w.st.MarkProjectDeleted(ctx, project.ID)
SoftDelete(id) ==
    /\ GetProjectFound(projects, id)
    /\ projects' = MarkProjectDeleted(projects, id)
    /\ call' = StoreCall("MarkProjectDeleted", id, projects[id].host_port, "ok")
    /\ UNCHANGED <<jobs, repos, ch, ctxDone, mainPc, recJobs, sending, worker,
                   enqLog, deqLog, recLog, runs, ops, dups, persisted, docker>>

\* A status write of the worker, which holds the project it loaded when the
\* job began: _ = w.st.SetProjectStatus(ctx, project.ID, status)
SetProjectStatusCall(id, status) ==
    /\ projects' = SetProjectStatus(projects, id, status)
    /\ call' = StoreCall("SetProjectStatus", id, 0, "ok")
    /\ UNCHANGED <<jobs, repos, ch, ctxDone, mainPc, recJobs, sending, worker,
                   enqLog, deqLog, recLog, runs, ops, dups, persisted, docker>>

StoreNext ==
    \/ \E id \in StoreIds, hostPort \in HostPorts : CreateProjectRequest(id, hostPort)
    \/ \E id \in StoreIds, hostPort \in HostPorts : UpdateConfigWithPortsRequest(id, hostPort)
    \/ \E id \in StoreIds : UpdateConfigRequest(id)
    \/ \E id \in StoreIds : SoftDelete(id)
    \/ \E id \in StoreIds : SetProjectStatusCall(id, ProjectStatusRunning)

StoreSpec == StoreInit /\ [][StoreNext]_vars

(***************************************************************************)
(* The git synchroniser on its own: one call of CloneRepo or of            *)
(* checkoutRef, over every answer the file system, the remote and the      *)
(* repository can give, and the call's return.                             *)
(***************************************************************************)
\* The state before a call of a helper: nothing else is under way.
AtRest(c) ==
    StartWith(FinishedRows, [id \in {} |-> NoProject], {}, Unobserved, c)

\* Refs: none, a branch name, forty hexadecimal digits, thirty-nine of them,
\* forty characters one of which is no hexadecimal digit.
GitRefs ==
    {<<>>, ProjectGitRef,
     [i \in 1..HexLen |-> "a"],
     [i \in 1..(HexLen - 1) |-> "a"],
     [i \in 1..HexLen |-> IF i = 1 THEN "g" ELSE "a"]}

\* The repositories a ref can meet: any of its candidates resolving or not.
Repositories(ref) ==
    {Repository(wt, references, revisions, co) :
       wt \in BOOLEAN, co \in BOOLEAN,
       references \in SUBSET Range(candidates(ref)),
       revisions \in SUBSET Range(revCandidates(ref))}

\* The repositories of the calls of CloneRepo: the branch is there or not,
\* its checkout succeeds or not.
SyncRepositories ==
    {Repository(TRUE, references, {}, co) :
       references \in SUBSET {<<"refs/heads/">> \o ProjectGitRef}, co \in BOOLEAN}

SyncArguments == {<<"url", "dest">>, <<"", "dest">>, <<"url", "">>}

CloneRepoCalls ==
    {[fn |-> "CloneRepo", done |-> FALSE, out |-> <<>>, ctx |-> done,
      url |-> a[1], destDir |-> a[2], ref |-> ref,
      git |-> [opens |-> opens, fetch |-> f, removeAll |-> ra, mkdirAll |-> mk,
               clone |-> cl, existing |-> existing, cloned |-> cloned]] :
       done \in BOOLEAN, a \in SyncArguments, ref \in {<<>>, ProjectGitRef},
       opens \in BOOLEAN, f \in {"ok", "up to date", "err"},
       ra \in BOOLEAN, mk \in BOOLEAN, cl \in BOOLEAN,
       existing \in SyncRepositories, cloned \in SyncRepositories}

checkoutRefCalls(refs) ==
    UNION {{[fn |-> "checkoutRef", done |-> FALSE, out |-> <<>>, ref |-> ref, repo |-> repo] :
              repo \in Repositories(ref)} : ref \in refs}

GitInit == \E c \in CloneRepoCalls \cup checkoutRefCalls(GitRefs) : AtRest(c)

Returned(out) ==
    /\ ~call.done
    /\ call' = [call EXCEPT !.done = TRUE, !.out = out]
    /\ UNCHANGED <<jobs, projects, repos, ch, ctxDone, mainPc, recJobs, sending, worker,
                   enqLog, deqLog, recLog, runs, ops, dups, persisted, docker>>

CloneRepoReturn ==
    /\ call.fn = "CloneRepo"
    /\ Returned(CloneRepo(call.ctx, call.url, call.ref, call.destDir, call.git))

checkoutRefReturn ==
    /\ call.fn = "checkoutRef"
    /\ Returned(checkoutRef(call.repo, call.ref))

GitNext == CloneRepoReturn \/ checkoutRefReturn

GitSpec == GitInit /\ [][GitNext]_vars

(***************************************************************************)
(* runComposeUpStop on its own: one call of ComposeUp, ComposeStop,        *)
(* ComposePause or ComposeUnpause over every ComposeSpec of a small        *)
(* alphabet, before or after the context is cancelled, and its return.     *)
(***************************************************************************)
MaxServiceLen == 3

\* The characters of a compose_service: letters of the two services of the
\* file, the separator, white space, a character the pattern allows only
\* after the first, a character it never allows.
ServiceChars == {"w", "d", ",", " ", "-", "/"}

ServiceStrings == UNION {[1..n -> ServiceChars] : n \in 0..MaxServiceLen}

ComposeSubcommands == {"up", "stop", "pause", "unpause"}

ComposeCalls ==
    {[fn |-> "runComposeUpStop", done |-> FALSE, out |-> <<>>, sub |-> sub,
      spec |-> [ProjectID |-> id, WorkDir |-> dir, ComposeFile |-> file,
                ComposeService |-> svc]] :
       sub \in ComposeSubcommands, id \in {"", "p1"}, dir \in {"", "dir"},
       file \in {"", " ", "docker-compose.yml"}, svc \in ServiceStrings}

\* The daemon before the call: empty, or with both services of p1 running,
\* brought up by an earlier deploy of every service.
ComposeDaemons == {EmptyDocker, ComposeResources("p1", ComposeProject)}

ComposeInit ==
    \E c \in ComposeCalls, d \in ComposeDaemons :
       StartWith(FinishedRows, [id \in {} |-> NoProject], {}, d, c)

\* ComposeUp, ComposeStop, ComposePause, ComposeUnpause:
\* return runComposeUpStop(ctx, spec, ...)
runComposeUpStopReturn ==
    /\ call.fn = "runComposeUpStop"
    /\ ~call.done
    /\ \E o \in runComposeUpStop(docker, call.spec, call.sub) :
          /\ call' = [call EXCEPT !.done = TRUE,
                                  !.out = [result |-> o.result, override |-> o.override,
                                           labelled |-> o.labelled, command |-> o.command]]
          /\ docker' = o.docker
    /\ UNCHANGED <<jobs, projects, repos, ch, ctxDone, mainPc, recJobs, sending, worker,
                   enqLog, deqLog, recLog, runs, ops, dups, persisted>>

ComposeNext == Shutdown \/ runComposeUpStopReturn

ComposeCallSpec == ComposeInit /\ [][ComposeNext]_vars

(***************************************************************************)
(* SafeJoin on its own: one call over every rel of a small alphabet and a  *)
(* few bases, and its return.                                              *)
(***************************************************************************)
MaxRelLen == 4

\* The characters of a rel: a letter, the dot, both separators, white space.
RelChars == {"a", ".", "/", "\\", " "}

Rels == UNION {[1..n -> RelChars] : n \in 0..MaxRelLen}

\* The bases: none, absolute, relative to the working directory, with a
\* ".." of its own, the root.
Bases == {<<>>, <<"/", "r">>, <<"r">>, <<"/", "r", "/", ".", ".", "/", "s">>, <<"/">>}

SafeJoinCalls ==
    {[fn |-> "SafeJoin", done |-> FALSE, out |-> <<>>, base |-> base, rel |-> rel] :
       base \in Bases, rel \in Rels}

\* The deploys: the repository of a project, repo_subdir empty or a
\* directory of it, the text held or not, every path of the model.
DeployFilePathCalls(rels) ==
    {[fn |-> "DeployFilePath", done |-> FALSE, out |-> <<>>, repoDir |-> <<"/", "r">>,
      repoSubdir |-> repoSubdir, content |-> content, filePath |-> filePath] :
       repoSubdir \in {<<>>, <<"a">>}, content \in {<<>>, <<"x">>}, filePath \in rels}

PathInit == \E c \in SafeJoinCalls \cup DeployFilePathCalls(Rels) : AtRest(c)

DeployFilePathReturn ==
    /\ call.fn = "DeployFilePath"
    /\ Returned(DeployFilePath(call.repoDir, call.repoSubdir, call.content, call.filePath))

SafeJoinReturn ==
    /\ call.fn = "SafeJoin"
    /\ Returned(SafeJoin(call.base, call.rel))

PathNext == SafeJoinReturn \/ DeployFilePathReturn

PathSpec == PathInit /\ [][PathNext]_vars

(***************************************************************************)
(* The port parsers on their own: one call over the texts made of a few    *)
(* lines, and its return.                                                  *)
(***************************************************************************)
MaxLines == 3

\* The lines of a Dockerfile: other instructions, EXPOSE with and without
\* protocol, in lower case, with two ports, out of range, indented, without
\* argument, with a variable, in a comment, and the empty line.
DockerfileLines ==
    {<<"F", "R", "O", "M", " ", "a", "l", "p", "i", "n", "e">>,
     <<"E", "X", "P", "O", "S", "E", " ", "8", "0", "8", "0">>,
     <<"E", "X", "P", "O", "S", "E", " ", "3", "0", "0", "0", "/", "t", "c", "p">>,
     <<"e", "x", "p", "o", "s", "e", " ", "8", "0", " ", "4", "4", "3">>,
     <<"E", "X", "P", "O", "S", "E", " ", "0">>,
     <<"E", "X", "P", "O", "S", "E", " ", "6", "5", "5", "3", "6">>,
     <<"E", "X", "P", "O", "S", "E", " ", "6", "5", "5", "3", "5", "/", "u", "d", "p">>,
     <<" ", " ", "E", "X", "P", "O", "S", "E", " ", " ", "9", "0", "9", "0", " ">>,
     <<"E", "X", "P", "O", "S", "E">>,
     <<"E", "X", "P", "O", "S", "E", " ", "$", "P">>,
     <<"#", " ", "E", "X", "P", "O", "S", "E", " ", "8", "1">>,
     <<>>}

\* The texts of the given lines, joined by line feeds.
Texts(lines, n) ==
    {StringsJoin(t, <<"\n">>) : t \in UNION {[1..k -> lines] : k \in 0..n}}

MaxTokenLen == 3

\* The characters of the argument of an EXPOSE line: digits, a letter, the
\* hyphen of a port range.
TokenChars == {"8", "0", "a", "-"}

\* A Dockerfile of one line: EXPOSE and one argument.
ExposeTokenTexts(n) ==
    {<<"E", "X", "P", "O", "S", "E", " ">> \o token :
       token \in UNION {[1..k -> TokenChars] : k \in 1..n}}

parseDockerfilePortCalls(n, m) ==
    {[fn |-> "parseDockerfilePort", done |-> FALSE, out |-> <<>>, content |-> text] :
       text \in Texts(DockerfileLines, n) \cup ExposeTokenTexts(m)}

MaxServices == 2

\* The names of the services of a compose file.
ComposeServiceNames == {<<"w", "e", "b">>, <<"d", "b">>, <<"a", "p", "p">>}

\* What a service holds below its name: no ports; an image and one entry;
\* two entries, one of them quoted, and a key after them; an entry out of
\* range before one with a protocol; a build block and an entry that is no
\* pair.
ServiceBodies ==
    <<<<<<" ", " ", " ", " ", "i", "m", "a", "g", "e", ":", " ", "x">>>>,
      <<<<" ", " ", " ", " ", "i", "m", "a", "g", "e", ":", " ", "x">>,
       <<" ", " ", " ", " ", "p", "o", "r", "t", "s", ":">>,
       <<" ", " ", " ", " ", " ", " ", "-", " ", "\"", "8", "0", "8", "0", ":", "8", "0", "\"">>>>,
      <<<<" ", " ", " ", " ", "p", "o", "r", "t", "s", ":">>,
       <<" ", " ", " ", " ", " ", " ", "-", " ", "9", "0", "9", "0", ":", "9", "0">>,
       <<" ", " ", " ", " ", " ", " ", "-", " ", "\"", "8", "4", "4", "3", ":", "4", "4", "3", "\"">>,
       <<" ", " ", " ", " ", "r", "e", "s", "t", "a", "r", "t", ":", " ", "a", "l", "w", "a", "y", "s">>>>,
      <<<<" ", " ", " ", " ", "p", "o", "r", "t", "s", ":">>,
       <<" ", " ", " ", " ", " ", " ", "-", " ", "\"", "0", ":", "8", "0", "\"">>,
       <<" ", " ", " ", " ", " ", " ", "-", " ", "'", "7", "0", ":", "7", "/", "t", "c", "p", "'">>>>,
      <<<<" ", " ", " ", " ", "b", "u", "i", "l", "d", ":">>,
       <<" ", " ", " ", " ", " ", " ", "c", "o", "n", "t", "e", "x", "t", ":", " ", ".">>,
       <<" ", " ", " ", " ", "p", "o", "r", "t", "s", ":">>,
       <<" ", " ", " ", " ", " ", " ", "-", " ", "\"", "8", "0", "\"">>>>>>

\* What follows the services: nothing, a volumes block, an extension block
\* with a ports list of its own.
Trailers ==
    <<<<>>,
      <<<<"v", "o", "l", "u", "m", "e", "s", ":">>,
       <<" ", " ", "d", "a", "t", "a", ":">>>>,
      <<<<"x", "-", "t", "e", "m", "p", "l", "a", "t", "e", "s", ":">>,
       <<" ", " ", "d", "b", ":">>,
       <<" ", " ", " ", " ", "p", "o", "r", "t", "s", ":">>,
       <<" ", " ", " ", " ", " ", " ", "-", " ", "\"", "1", ":", "2", "\"">>>>>>

\* The services of a file: up to MaxServices of them, their names distinct.
ServiceLists(most) ==
    {l \in UNION {[1..n -> [name : ComposeServiceNames, body : DOMAIN ServiceBodies]] :
                    n \in 1..most} :
       \A i \in DOMAIN l : \A j \in DOMAIN l : l[i].name = l[j].name => i = j}

RECURSIVE ServiceLines(_)
ServiceLines(l) ==
    IF l = <<>> THEN <<>>
    ELSE <<<<" ", " ">> \o Head(l).name \o <<":">>>> \o ServiceBodies[Head(l).body]
         \o ServiceLines(Tail(l))

\* The text of a compose file with the services and what follows them.
ComposeText(versioned, l, trailer) ==
    StringsJoin((IF versioned THEN <<<<"v", "e", "r", "s", "i", "o", "n", ":", " ", "\"", "3", ".", "8", "\"">>>> ELSE <<>>)
                \o <<<<"s", "e", "r", "v", "i", "c", "e", "s", ":">>>> \o ServiceLines(l) \o Trailers[trailer],
                <<"\n">>)

\* The service names of the calls: none, those of the files, a reserved key.
parseComposePortCalls(most) ==
    {[fn |-> "parseComposePort", done |-> FALSE, out |-> <<>>,
      content |-> ComposeText(versioned, l, trailer), services |-> l, trailer |-> trailer,
      serviceName |-> name] :
       versioned \in BOOLEAN, l \in ServiceLists(most), trailer \in DOMAIN Trailers,
       name \in {<<>>, <<"w", "e", "b">>, <<"d", "b">>, <<"p", "o", "r", "t", "s">>}}

parseComposePortReturn ==
    /\ call.fn = "parseComposePort"
    /\ Returned(parseComposePort(call.content, call.serviceName))

ParseInit ==
    \E c \in parseDockerfilePortCalls(MaxLines, MaxTokenLen)
              \cup parseComposePortCalls(MaxServices) :
       AtRest(c)

parseDockerfilePortReturn ==
    /\ call.fn = "parseDockerfilePort"
    /\ Returned(parseDockerfilePort(call.content))

ParseNext == parseDockerfilePortReturn \/ parseComposePortReturn

ParseSpec == ParseInit /\ [][ParseNext]_vars

(***************************************************************************)
(* One call of Detect on a repository directory.                           *)
(***************************************************************************)
\* What a compose candidate and the Dockerfile of a repository can be.
ComposeFiles ==
    {NoFile, Unreadable, File(""), File("services:\n  web: {}\n"),
     File("services:\n  b: {}\n  a: {}\n"), File("services: [\n")}

DockerfileFiles == {NoFile, Unreadable, File(""), File("FROM alpine\n")}

RepoFiles == Range(composeCandidates) \cup {dockerfileRel}

Directories(composeFiles, dockerfileFiles) ==
    {dir \in [RepoFiles -> composeFiles \cup dockerfileFiles] :
       /\ dir[dockerfileRel] \in dockerfileFiles
       /\ \A rel \in Range(composeCandidates) : dir[rel] \in composeFiles}

DetectCalls(repoDirs) ==
    {[fn |-> "Detect", done |-> FALSE, out |-> <<>>, repoDir |-> repoDir, dir |-> dir] :
       repoDir \in repoDirs, dir \in Directories(ComposeFiles, DockerfileFiles)}

DetectInit == \E c \in DetectCalls({"", "/repo"}) : AtRest(c)

DetectReturn ==
    /\ call.fn = "Detect"
    /\ Returned(Detect(call.repoDir, call.dir))

DetectNext == DetectReturn

DetectSpec == DetectInit /\ [][DetectNext]_vars

(***************************************************************************)
(* api: createProjectFromDraft, one goroutine for each request.            *)
(***************************************************************************)
\* The requests in flight, and the project identifier newID() gives each.
Handlers == {"h1", "h2"}

newID(h) == IF h = "h1" THEN "p1" ELSE "p2"

\* The drafts of table project_drafts when the requests arrive; a request
\* can also name a draft that does not exist.
StoredDrafts == {"d1"}
DraftIds == {"d1", "d2"}

\* The port the texts of a request (or of the draft, where the request has
\* none) are parsed to; 0 when none is found.
DraftPorts == {0, 8080, 8081}

\* A request that has been bound and holds a draft_id.
DraftRequest(draftID, port) == [pc |-> "getDraft", draftID |-> draftID, port |-> port]

DraftCalls ==
    {[fn |-> "createProjectFromDraft", done |-> FALSE, drafts |-> StoredDrafts,
      dirs |-> StoredDrafts, made |-> {}, handlers |-> handlers] :
       handlers \in [Handlers -> {DraftRequest(d, port) : d \in DraftIds, port \in DraftPorts}]}

DraftInit == \E c \in DraftCalls : AtRest(c)

DraftAt(h, pc) == call.fn = "createProjectFromDraft" /\ call.handlers[h].pc = pc

DraftGoto(h, pc) == [call EXCEPT !.handlers[h].pc = pc]

\* draft, err := s.st.GetProjectDraft(ctx, req.DraftID): 404 when there is
\* no such row; then the texts and the ports: 400 when no port was parsed.
DraftGet(h) ==
    /\ DraftAt(h, "getDraft")
    /\ call' = IF call.handlers[h].draftID \notin call.drafts THEN DraftGoto(h, "notFound")
               ELSE IF call.handlers[h].port <= 0 THEN DraftGoto(h, "badRequest")
               ELSE DraftGoto(h, "createProject")
    /\ UNCHANGED <<jobs, projects, repos, ch, ctxDone, mainPc, recJobs, sending, worker,
                   enqLog, deqLog, recLog, runs, ops, dups, persisted, docker>>

\* id, err := newID(); project, err := s.st.CreateProject(ctx, store.Project{...}):
\* 500 on an error.
DraftCreateProject(h) ==
    /\ DraftAt(h, "createProject")
    /\ LET r == CreateProject(projects, newID(h),
                              WithPorts(Project("dockerfile", "", "", "Dockerfile", "FROM alpine", <<>>),
                                        call.handlers[h].port, call.handlers[h].port))
       IN  /\ projects' = r[2]
           /\ call' = IF r[1] = "ok"
                      THEN [DraftGoto(h, "removeAll") EXCEPT
                               !.made = @ \cup {<<call.handlers[h].draftID, newID(h)>>}]
                      ELSE DraftGoto(h, "serverError")
    /\ UNCHANGED <<jobs, repos, ch, ctxDone, mainPc, recJobs, sending, worker,
                   enqLog, deqLog, recLog, runs, ops, dups, persisted, docker>>

\* _ = os.RemoveAll(draft.RepoDir): the error is discarded.
DraftRemoveAll(h) ==
    /\ DraftAt(h, "removeAll")
    /\ \E removed \in BOOLEAN :
          call' = [DraftGoto(h, "deleteDraft") EXCEPT
                      !.dirs = IF removed THEN @ \ {call.handlers[h].draftID} ELSE @]
    /\ UNCHANGED <<jobs, projects, repos, ch, ctxDone, mainPc, recJobs, sending, worker,
                   enqLog, deqLog, recLog, runs, ops, dups, persisted, docker>>

\* _ = s.st.DeleteProjectDraft(c.Request.Context(), req.DraftID): the error
\* (a request context that was cancelled, a database error) is discarded;
\* then the response 201.
DraftDelete(h) ==
    /\ DraftAt(h, "deleteDraft")
    /\ \E deleted \in BOOLEAN :
          call' = [DraftGoto(h, "created") EXCEPT
                      !.drafts = IF deleted THEN @ \ {call.handlers[h].draftID} ELSE @]
    /\ UNCHANGED <<jobs, projects, repos, ch, ctxDone, mainPc, recJobs, sending, worker,
                   enqLog, deqLog, recLog, runs, ops, dups, persisted, docker>>

DraftNext ==
    \E h \in Handlers :
       \/ DraftGet(h)
       \/ DraftCreateProject(h)
       \/ DraftRemoveAll(h)
       \/ DraftDelete(h)

DraftSpec == DraftInit /\ [][DraftNext]_vars

(***************************************************************************)
(* Properties.                                                             *)
(***************************************************************************)
\* How often an identifier occurs in a sequence.
Count(seq, x) == Cardinality({i \in 1..Len(seq) : seq[i] = x})

QueuedAtStart == {j \in DOMAIN persisted : persisted[j].status = JobStatusQueued}

\* A sequence of identifiers without repetition, in ascending order of the
\* request times the rows had at startup.
InRequestOrder(seq) ==
    \A i \in 1..Len(seq) : \A k \in (i + 1)..Len(seq) :
       /\ seq[i] # seq[k]
       /\ persisted[seq[i]].requested_at <= persisted[seq[k]].requested_at

\* What recovery enqueues is at every moment right as far as it goes: rows
\* that were queued at startup, each once, in ascending request-time order;
\* together with what it still holds, exactly those rows; all of them when
\* it returns nil; and nothing more afterwards.
RecoveryEnqueuesInOrderSoFar ==
    /\ [](/\ Range(recLog) \subseteq QueuedAtStart
          /\ InRequestOrder(recLog)
          /\ mainPc = "enqueue" => /\ InRequestOrder(recLog \o recJobs)
                                   /\ Range(recLog \o recJobs) = QueuedAtStart)
    /\ [][/\ (mainPc = "enqueue" /\ mainPc' # "enqueue") => Range(recLog) = QueuedAtStart
          /\ mainPc \notin {"recover", "enqueue"} => recLog' = recLog]_vars

\* C3: startup recovery enqueues exactly the rows that were queued at
\* startup, each once, in ascending request-time order, and no row of another
\* status.  No other goroutine runs during recovery, so it enqueues them all
\* exactly if, whenever it has listed the rows and not yet enqueued every one,
\* its next enqueue can complete.
RecoveryEnqueuesExactlyQueued ==
    /\ Range(recLog) \subseteq QueuedAtStart
    /\ InRequestOrder(recLog)
    /\ mainPc = "enqueue" => (Range(recLog) = QueuedAtStart \/ ENABLED RecoverEnqueue)

\* C3, its case: recovery has enqueued the row requested first and still
\* holds a row requested later.
RecoveryEnqueuedOldestFirst ==
    /\ mainPc = "enqueue"
    /\ recLog # <<>>
    /\ recJobs # <<>>
    /\ persisted[recLog[1]].requested_at < persisted[Head(recJobs)].requested_at

\* C4: for any number of rows queued at startup, also more than the buffer
\* holds, recovery terminates, and every such row is eventually taken by
\* the worker and leaves queued (unless the process is told to shut down).
RecoveryStrandsNothing ==
    /\ <>(mainPc \notin {"recover", "enqueue"})
    /\ \A j \in 1..(Capacity + 1) :
          <>(\/ ctxDone
             \/ IF j \in DOMAIN persisted
                THEN persisted[j].status = JobStatusQueued => jobs[j].status # JobStatusQueued
                ELSE TRUE)

\* C4, its case: more rows were queued at startup than the buffer holds,
\* the buffer is full and main is still in recovery, the worker not started.
RecoveryHoldsMoreThanBuffer ==
    /\ Cardinality(QueuedAtStart) > Capacity
    /\ mainPc = "enqueue"
    /\ Len(ch) = Capacity
    /\ recJobs # <<>>
    /\ \A w \in WorkerGoroutines : worker[w].pc = "notStarted"

\* C5: the worker receives identifiers in the order in which their enqueue
\* calls completed: what it has received is at every moment the beginning of
\* the sequence of completed enqueues, and the job it is dealing with is the
\* one it received last.
WorkerReceivesInEnqueueOrder ==
    /\ IsPrefix(deqLog, enqLog)
    /\ \A w \in WorkerGoroutines :
          worker[w].pc \notin {"notStarted", "select", "returned"}
          => worker[w].jobID = deqLog[Len(deqLog)]

\* C5, its case: two different identifiers were in the buffer together
\* (recovery enqueued both before the worker started) and the worker has
\* received both.
TwoReceivedInOrder ==
    /\ Len(recLog) = 2
    /\ Len(deqLog) >= 2
    /\ deqLog[1] # deqLog[2]

\* C6: no identifier is dropped, overwritten or delivered twice: the
\* identifiers received followed by the buffered ones are the completed
\* enqueues in their order; the buffer never exceeds its capacity; a pending
\* enqueue can complete exactly when the buffer is not full; and a worker at
\* its select can receive whenever the buffer is not empty.
NoIdentifierLost ==
    /\ deqLog \o ch = enqLog
    /\ Len(ch) <= Capacity
    /\ \A id \in sending : (ENABLED HandlerEnqueue(id)) <=> (Alive /\ Len(ch) < Capacity)
    /\ \A w \in WorkerGoroutines :
          (Alive /\ worker[w].pc = "select" /\ ch # <<>>) => ENABLED WorkerReceive(w)

\* C6, its case: the buffer is full, a producer is blocked in Enqueue, and
\* the worker is running.
ProducerBlockedOnFullBuffer ==
    /\ Len(ch) = Capacity
    /\ sending # {}
    /\ Alive
    /\ \E w \in WorkerGoroutines : worker[w].pc \notin {"notStarted", "returned"}

\* The worker goroutines that are inside runJob, past the status check.
Executing == {w \in WorkerGoroutines :
                worker[w].pc \notin {"notStarted", "select", "returned", "runJob"}}

\* C9: the worker executes at most one job at a time: at most one
\* goroutine is inside a job, and every step that changes a job row, a
\* project row, a working copy or performs an external operation belongs to
\* that one job, so the steps of two jobs never interleave.
OneJobAtATime ==
    /\ [](Cardinality(Executing) <= 1)
    /\ [][/\ \A j \in DOMAIN jobs :
                jobs'[j] # jobs[j] => \E w \in Executing : worker[w].jobID = j
          /\ (projects' # projects \/ repos' # repos) => Executing # {}
          /\ \A o \in ops' \ ops : \E w \in Executing : worker[w].jobID = o[1]
          /\ \A w \in Executing : worker'[w].jobID = worker[w].jobID
                                   \/ worker'[w].pc = "runJob"]_vars

\* C9, its case: a job is in execution after another job has been executed.
SecondJobExecuting ==
    \E w \in Executing :
       /\ runs[worker[w].jobID] = 1
       /\ \E j \in DOMAIN jobs : j # worker[w].jobID /\ runs[j] = 1

\* The statuses a finished job has.
Terminal == {JobStatusSucceeded, JobStatusFailed}

\* The last line of a job's log, "" for an empty log.
LastLog(job) == IF job.log = <<>> THEN "" ELSE job.log[Len(job.log)]

RunningJobReachesOutcome ==
    \A j \in DOMAIN jobs :
       runs[j] >= 1 =>
          /\ jobs[j].status = JobStatusRunning
             => ~Alive \/ \E w \in Executing : worker[w].jobID = j
          /\ jobs[j].status = JobStatusSucceeded
             => jobs[j].error = "" /\ LastLog(jobs[j]) = "job finished"
          /\ jobs[j].status = JobStatusFailed
             => jobs[j].error # "" /\ LastLog(jobs[j]) = "error: " \o jobs[j].error

\* C7, its case: a job was marked running, loading its project failed, and
\* the row is failed with that error.
FailedToLoadProject ==
    \E j \in DOMAIN jobs :
       /\ runs[j] = 1
       /\ jobs[j].started_at # NullInt
       /\ jobs[j].status = JobStatusFailed
       /\ jobs[j].error = "load project"

\* C8: a shutdown signal that arrives while a job executes does not
\* interrupt it: when the run loop has exited, every job it accepted has its
\* outcome recorded (the row succeeded or failed, and for a deploy the
\* project running or failed), and the process does not end while a job is
\* in execution.
ShutdownWaitsForJob ==
    /\ (\E w \in WorkerGoroutines : worker[w].pc = "returned")
       => \A j \in DOMAIN jobs :
             runs[j] >= 1 =>
                /\ jobs[j].status \in Terminal
                /\ (jobs[j].type = JobTypeDeploy /\ jobs[j].error # "load project")
                   => projects[jobs[j].project_id].last_status
                         \in {ProjectStatusRunning, ProjectStatusFailed}
    /\ mainPc = "exited" => Executing = {}

\* C8, its case: the shutdown signal has arrived while a job is in
\* execution, after the job was marked running.
ShutdownDuringJob ==
    /\ ctxDone
    /\ Alive
    /\ \E w \in Executing : jobs[worker[w].jobID].status = JobStatusRunning

(***************************************************************************)
(* Properties of the operations.                                           *)
(***************************************************************************)
\* The status the contract gives a project after each of the four
\* operations that change the state of what is deployed.
StatusAfter(type) ==
    CASE type = JobTypeStart -> "running"
      [] type = JobTypeStop -> "stopped"
      [] type = JobTypePause -> "paused"
      [] type = JobTypeUnpause -> "running"

FinishedDeletes ==
    {w \in WorkerGoroutines :
       /\ worker[w].job.type = JobTypeDelete
       /\ worker[w].project # NoProject
       /\ jobs[worker[w].jobID].status \in Terminal}

\* C12: a delete job on an existing project ends succeeded with the project
\* soft-deleted (status deleted, deleted_at set), whatever the removals of
\* containers, networks, image and working copy return.
DeleteAlwaysMarksDeleted ==
    \A w \in FinishedDeletes :
       /\ jobs[worker[w].jobID].status = JobStatusSucceeded
       /\ projects[worker[w].project.id].deleted_at # NullInt
       /\ projects[worker[w].project.id].last_status = ProjectStatusDeleted

\* A delete job whose removals all failed has succeeded, the project is
\* soft-deleted.
DeletedThoughRemovalsFailed ==
    \E w \in FinishedDeletes :
       /\ jobs[worker[w].jobID].status = JobStatusSucceeded
       /\ projects[worker[w].project.id].deleted_at # NullInt
       /\ \A op \in {"remove containers", "remove networks", "remove image", "remove repo"} :
             <<worker[w].jobID, op, "failed">> \in ops

\* The resources on a daemon that the deploys of a project created.
ResourcesIn(d, projectID) ==
    {c \in d.containers : c.owner = projectID}
    \cup {n \in d.networks : n.owner = projectID}
    \cup {i \in d.images : i.owner = projectID}

ResourcesOf(projectID) == ResourcesIn(docker, projectID)

\* No removal of the job returned an error or left part of its work undone.
RemovalsSucceeded(jobID) ==
    \A op \in {"remove containers", "remove networks", "remove image", "remove repo"} :
       <<jobID, op, "failed">> \notin ops

\* C13: after a delete job has succeeded with every removal call
\* succeeding, no container, network or image that an earlier deploy
\* created for the project remains, for a Dockerfile project and for a
\* compose project with or without a service selector.
DeleteLeavesNoResource ==
    \A w \in FinishedDeletes :
       (/\ jobs[worker[w].jobID].status = JobStatusSucceeded
        /\ RemovalsSucceeded(worker[w].jobID))
       => ResourcesOf(worker[w].project.id) = {}

\* A delete job on a deployed Dockerfile project has removed the container
\* and is about to remove the image.
DeleteRemovedLabelledContainer ==
    \E w \in WorkerGoroutines :
       /\ worker[w].pc = "deleteImage"
       /\ RemovalsSucceeded(worker[w].jobID)
       /\ ResourcesOf(worker[w].project.id) = {[tag |-> imageTag(worker[w].project.id),
                                                owner |-> worker[w].project.id]}

\* C14: no step of an operation on a project stops, starts, pauses, removes
\* or replaces a container, network or image of another project: whatever
\* the worker does, the resources of every project other than the one whose
\* job it is running stay as they are.  Networks are removed by name prefix.
OtherProjectsUntouched ==
    [][\A q \in Projects :
          (\A w \in WorkerGoroutines : worker[w].project.id # q)
          => ResourcesIn(docker', q) = ResourcesIn(docker, q)]_vars

\* The delete job of a deployed compose project has removed its containers
\* and its network, and the network of the other compose project is there.
NetworkOfOtherProjectKept ==
    \E w \in WorkerGoroutines :
       /\ worker[w].pc = "deleteImage"
       /\ worker[w].project.id \in repos
       /\ ResolveDeployType(worker[w].project.deploy_type, worker[w].project.compose_file)
            = DeployTypeCompose
       /\ ResourcesOf(worker[w].project.id) = {}
       /\ \E n \in docker.networks :
             /\ n.owner # worker[w].project.id
             /\ HasPrefix(n.name, <<"last-deploy-">>)

\* The projects that are not deleted and hold the positive host port.
Claiming(ps, hostPort) ==
    {id \in DOMAIN ps : ps[id].deleted_at = NullInt /\ ps[id].host_port = hostPort /\ hostPort > 0}

\* C15: in every state of the store no two projects that are not deleted
\* have the same positive host port, across creations, configuration
\* updates with parsed ports and soft deletions; a creation or an update
\* that would give a project a port another active project holds returns
\* an error and leaves table projects as it was.
HostPortHasOneActiveProject ==
    /\ [](\A hostPort \in HostPorts : Cardinality(Claiming(projects, hostPort)) <= 1)
    /\ [][(/\ call'.fn \in {"CreateProject", "UpdateProjectConfigWithPorts"}
           /\ Claiming(projects, call'.hostPort) \ {call'.id} # {})
          => (call'.result = "err" /\ projects' = projects)]_vars

\* An update was refused because another active project holds the port,
\* while a soft-deleted project has the same port as an active one.
PortRefusedAndPortReused ==
    /\ call.fn = "UpdateProjectConfigWithPorts"
    /\ call.result = "err"
    /\ Claiming(projects, call.hostPort) \ {call.id} # {}
    /\ \E a \in DOMAIN projects : \E b \in DOMAIN projects :
          /\ projects[a].deleted_at # NullInt
          /\ projects[b].deleted_at = NullInt
          /\ projects[a].host_port = projects[b].host_port
          /\ projects[a].host_port > 0

\* The rows that were stored as running when this process started.
RunningAtStart == {j \in DOMAIN persisted : persisted[j].status = JobStatusRunning}

\* C16: startup recovery never enqueues a job whose stored status is
\* running, the worker never executes it, and no step changes its row:
\* status, step, log and timestamps stay as they were, in this process and,
\* the row being unchanged when the process ends, in every later one.
RunningJobIsLeftAlone ==
    /\ [](\A j \in RunningAtStart :
            /\ \A i \in 1..Len(recLog) : recLog[i] # j
            /\ runs[j] = 0)
    /\ [][\A j \in RunningAtStart : jobs'[j] = jobs[j]]_vars

\* Job 1 was running when the process ended in the middle of its deploy;
\* the next process has finished recovery with an empty queue and the row
\* is as the earlier process left it.
InterruptedJobStillRunning ==
    /\ 1 \in RunningAtStart
    /\ persisted[1].current_step = "sync_repo"
    /\ mainPc = "serve"
    /\ ch = <<>>
    /\ \A w \in WorkerGoroutines : worker[w].pc = "select"
    /\ jobs[1] = persisted[1]

(***************************************************************************)
(* Properties of the git synchroniser.                                     *)
(***************************************************************************)
\* A call of CloneRepo with a url and a destination has returned.
Synced == call.fn = "CloneRepo" /\ call.done /\ call.url # "" /\ call.destDir # ""

Times(steps, step) == Cardinality({i \in 1..Len(steps) : steps[i] = step})

FetchFailed == call.ctx \/ call.git.fetch = "err"

ExistingCopyFailed ==
    /\ Synced /\ call.git.opens
    /\ \/ FetchFailed
       \/ checkoutRef(call.git.existing, call.ref).err # <<>>

\* C18: a failure on an existing working copy, that of the checkout after a
\* successful fetch included, removes the copy and clones afresh exactly once,
\* and the call returns an error only after that fallback.
AnySyncFailureFallsBackOnce ==
    ExistingCopyFailed => Times(call.out.steps, "RemoveAll") = 1

\* The fetch succeeded and the checkout failed: the call returned the
\* checkout's error with the copy left in place.
CheckoutFailedAfterFetch ==
    /\ Synced /\ call.git.opens /\ ~FetchFailed
    /\ call.out.err = <<"unknown git_ref: ">> \o call.ref
    /\ call.out.steps = <<"PlainOpen", "Fetch", "checkoutRef">>

\* A call of checkoutRef has returned.
CheckedOut == call.fn = "checkoutRef" /\ call.done

\* The commit a first-match search through the names finds: by hash for
\* forty hexadecimal digits, else through the first reference that resolves
\* among the literal name, the remote-tracking name of origin, the tag and
\* the branch, else through the first revision that resolves.
FirstMatch(repo, ref) ==
    LET references == <<ref, <<"refs/remotes/origin/">> \o ref,
                        <<"refs/tags/">> \o ref, <<"refs/heads/">> \o ref>>
        revisions == <<ref, <<"origin/">> \o ref, <<"refs/remotes/origin/">> \o ref,
                       <<"refs/tags/">> \o ref, <<"refs/heads/">> \o ref>>
        Earliest(names, resolved, i) ==
            /\ names[i] \in resolved
            /\ \A j \in 1..(i - 1) : names[j] \notin resolved
    IN  IF Len(ref) = 40 /\ \A i \in 1..40 : ref[i] \in HexDigits
        THEN {[by |-> "Hash", name |-> ref]}
        ELSE IF \E i \in 1..4 : references[i] \in repo.references
        THEN {[by |-> "Reference", name |-> references[i]] :
                i \in {k \in 1..4 : Earliest(references, repo.references, k)}}
        ELSE {[by |-> "Revision", name |-> revisions[i]] :
                i \in {k \in 1..5 : Earliest(revisions, repo.revisions, k)}}

\* C19: checkoutRef leaves the worktree at the commit of the first candidate
\* that resolves, in the order hash, literal name, origin/<ref>, tag, branch,
\* then the five revisions; an empty ref checks nothing out; a ref that
\* resolves nowhere is an error that names it.
CheckoutTakesFirstMatch ==
    CheckedOut =>
       /\ call.ref = <<>> => (call.out.err = <<>> /\ call.out.head = Produced)
       /\ (call.ref # <<>> /\ call.out.err = <<>>) => call.out.head \in FirstMatch(call.repo, call.ref)
       /\ (call.ref # <<>> /\ call.repo.worktree /\ call.repo.checkout) =>
             IF FirstMatch(call.repo, call.ref) = {}
             THEN call.out.err = <<"unknown git_ref: ">> \o call.ref /\ call.out.head = Produced
             ELSE call.out.err = <<>>

\* The ref names both a tag and a branch, and no reference before them: the
\* worktree is at the tag.
TagCheckedOutBeforeBranch ==
    /\ CheckedOut /\ call.ref = ProjectGitRef
    /\ call.repo.references = {<<"refs/tags/">> \o call.ref, <<"refs/heads/">> \o call.ref}
    /\ call.out.err = <<>>
    /\ call.out.head = [by |-> "Reference", name |-> <<"refs/tags/">> \o call.ref]

(***************************************************************************)
(* Properties of runComposeUpStop.                                         *)
(***************************************************************************)
\* The entries of a compose_service between its commas, white space around
\* them put aside; an entry of white space alone names no service.
RECURSIVE Entries(_)
Entries(s) ==
    LET Strip(e) == IF \A i \in 1..Len(e) : e[i] = " " THEN <<>>
                    ELSE LET first == CHOOSE i \in 1..Len(e) :
                                         e[i] # " " /\ \A j \in 1..(i - 1) : e[j] = " "
                             last == CHOOSE i \in 1..Len(e) :
                                        e[i] # " " /\ \A j \in (i + 1)..Len(e) : e[j] = " "
                         IN  SubSeq(e, first, last)
        commas == {i \in 1..Len(s) : s[i] = ","}
    IN  IF commas = {}
        THEN {Strip(s)} \ {<<>>}
        ELSE LET c == CHOOSE i \in commas : \A j \in commas : i <= j
             IN  ({Strip(SubSeq(s, 1, c - 1))} \ {<<>>}) \cup Entries(SubSeq(s, c + 1, Len(s)))

\* [A-Za-z0-9][A-Za-z0-9_.-]* over the characters of the model.
Identifier(name) ==
    /\ Len(name) >= 1
    /\ name[1] \in {"w", "d"}
    /\ \A i \in 2..Len(name) : name[i] \in {"w", "d", "-"}

\* The call names no project, no working directory or no compose file, or
\* one of its service names is no identifier.
Invalid(spec) ==
    \/ spec.ProjectID = ""
    \/ spec.WorkDir = ""
    \/ spec.ComposeFile \in {"", " "}
    \/ \E name \in Entries(spec.ComposeService) : ~Identifier(name)

\* C20: a call of runComposeUpStop with a service name that is no identifier,
\* or with an empty project id, working directory or compose file, returns an
\* error, creates no override file and runs no compose command; the daemon
\* is as it was.
InvalidComposeCallIsRejected ==
    /\ [](call.fn = "runComposeUpStop" /\ call.done /\ Invalid(call.spec)
            => /\ call.out.result = "err"
               /\ call.out.override = "none"
               /\ call.out.command = NoCommand)
    /\ [][(call.fn = "runComposeUpStop" /\ ~call.done /\ call'.done /\ Invalid(call.spec))
            => docker' = docker]_vars

\* Of two service names the second is no identifier: the call was rejected
\* though the first names a service of the file.
SecondServiceNameRejected ==
    /\ call.fn = "runComposeUpStop" /\ call.done /\ ~ctxDone
    /\ call.spec.ProjectID # "" /\ call.spec.WorkDir # ""
    /\ call.spec.ComposeFile = "docker-compose.yml"
    /\ call.spec.ComposeService = <<"w", ",", "/">>
    /\ call.sub = "up"
    /\ call.out.result = "err" /\ call.out.command = NoCommand

\* A call of runComposeUpStop has returned.
ComposeReturned == call.fn = "runComposeUpStop" /\ call.done

Unselected(d, spec) ==
    {c \in d.containers : c.service \notin Entries(spec.ComposeService)}

FailedOnServiceName ==
    /\ 1 \in DOMAIN jobs /\ jobs[1].status = JobStatusFailed
    /\ \E name \in Entries(projects["p1"].compose_service) : ~Identifier(name)
    /\ \E sub \in {"up", "stop", "pause", "unpause"} : <<1, "compose " \o sub>> \in ops

\* The operations that write files.
FileWrites == {"git sync", "write Dockerfile", "write compose"}

\* C23: a job that fails on a validation error has produced no side effect:
\* here, the job refused for its service name has synchronised no working
\* copy and written no file.
ValidationFailureHasNoSideEffect ==
    FailedOnServiceName => \A op \in FileWrites : <<1, op>> \notin ops

\* A deploy refused for its service name, after the working copy was
\* synchronised and the compose text written into it.
RefusedAfterFilesWritten ==
    /\ FailedOnServiceName
    /\ jobs[1].type = JobTypeDeploy
    /\ <<1, "git sync">> \in ops /\ <<1, "write compose">> \in ops
    /\ "p1" \in repos

(***************************************************************************)
(* Properties of SafeJoin.                                                 *)
(***************************************************************************)
\* A call of SafeJoin with a base has returned.
Joined == call.fn = "SafeJoin" /\ call.done /\ call.base # <<>>

\* The directories a path leads through from the root, one after the
\* other, "." staying and ".." going back; a relative path starts in the
\* working directory.
RECURSIVE Walk(_, _)
Walk(path, at) ==
    IF path = <<>> THEN at
    ELSE LET slashes == {i \in 1..Len(path) : path[i] = "/"}
             end == IF slashes = {} THEN Len(path) + 1
                    ELSE CHOOSE i \in slashes : \A j \in slashes : i <= j
             name == SubSeq(path, 1, end - 1)
             rest == SubSeq(path, end + 1, Len(path))
         IN  IF name = <<>> \/ name = <<".">> THEN Walk(rest, at)
             ELSE IF name = <<".", ".">>
             THEN Walk(rest, IF at = <<>> THEN at ELSE SubSeq(at, 1, Len(at) - 1))
             ELSE Walk(rest, Append(at, name))

Location(path) ==
    IF path # <<>> /\ path[1] = "/" THEN Walk(path, <<>>) ELSE Walk(path, <<<<"w">>>>)

\* path is base or lies below it.
Inside(base, path) ==
    /\ Len(Location(base)) <= Len(Location(path))
    /\ SubSeq(Location(path), 1, Len(Location(base))) = Location(base)

\* rel has a segment "..": two dots between separators or the ends.
HasDotDotSegment(rel) ==
    \E i \in 1..(Len(rel) - 1) :
       /\ rel[i] = "." /\ rel[i + 1] = "."
       /\ (i = 1 \/ rel[i - 1] = "/")
       /\ (i + 1 = Len(rel) \/ rel[i + 2] = "/")

\* The bases of the model, cleaned.
CleanedBase(base) ==
    CASE base = <<"/", "r", "/", ".", ".", "/", "s">> -> <<"/", "s">>
      [] OTHER -> base

\* C24: a path SafeJoin returns lies inside base; a rel with a ".." segment
\* and an absolute rel are rejected; an empty rel and "." give the cleaned
\* base.
SafeJoinStaysInsideBase ==
    Joined =>
       /\ call.out.err = "" => Inside(call.base, call.out.path)
       /\ HasDotDotSegment(call.rel) => call.out.err # ""
       /\ (call.rel # <<>> /\ call.rel[1] = "/") => call.out.err # ""
       /\ call.rel \in {<<>>, <<".">>} =>
             (call.out.err = "" /\ call.out.path = CleanedBase(call.base))

\* A rel of two names was joined below an absolute base.
JoinedBelowBase ==
    /\ Joined /\ call.base = <<"/", "r">> /\ call.rel = <<"a", "/", "a">>
    /\ call.out.err = "" /\ call.out.path = <<"/", "r", "/", "a", "/", "a">>

\* C25: SafeJoin accepts every relative rel whose joined path stays inside
\* base, and the path it returns for an accepted rel is filepath.Join(base,
\* rel) of the rel as it was given, white space and backslashes included.
SafeJoinReturnsJoinOfRelAsGiven ==
    Joined =>
       /\ (~IsAbs(call.rel) /\ Inside(call.base, Join(call.base, call.rel))) =>
             call.out.err = ""
       /\ call.out.err = "" => call.out.path = Join(call.base, call.rel)

\* A rel with a leading blank was accepted, and the path returned is not
\* the join of base and that rel.
JoinedRelWasTrimmed ==
    /\ Joined /\ call.base = <<"/", "r">> /\ call.rel = <<" ", "a">>
    /\ call.out.err = "" /\ call.out.path = <<"/", "r", "/", "a">>
    /\ Join(call.base, call.rel) = <<"/", "r", "/", " ", "a">>

(***************************************************************************)
(* Properties of the port parsers.                                         *)
(***************************************************************************)
\* The lines of a text, cut at its line feeds.
RECURSIVE LinesOf(_)
LinesOf(text) ==
    LET feeds == {i \in 1..Len(text) : text[i] = "\n"}
    IN  IF feeds = {} THEN <<text>>
        ELSE LET f == CHOOSE i \in feeds : \A j \in feeds : i <= j
             IN  <<SubSeq(text, 1, f - 1)>> \o LinesOf(SubSeq(text, f + 1, Len(text)))

\* The port an EXPOSE line of the model exposes, when it is one of 1..65535:
\* its first port, without the protocol; 0 for every other line.
Exposes(line) ==
    CASE line = <<"E", "X", "P", "O", "S", "E", " ", "8", "0", "8", "0">> -> 8080
      [] line = <<"E", "X", "P", "O", "S", "E", " ", "3", "0", "0", "0", "/", "t", "c", "p">> -> 3000
      [] line = <<"e", "x", "p", "o", "s", "e", " ", "8", "0", " ", "4", "4", "3">> -> 80
      [] line = <<"E", "X", "P", "O", "S", "E", " ", "6", "5", "5", "3", "5", "/", "u", "d", "p">> -> 65535
      [] line = <<" ", " ", "E", "X", "P", "O", "S", "E", " ", " ", "9", "0", "9", "0", " ">> -> 9090
      [] OTHER -> 0

\* C26: parseDockerfilePort returns the port of the first EXPOSE line, in
\* line order, whose port is in 1..65535, the protocol stripped and lines
\* with a port out of range passed over; 0 when no line has such a port.
FirstValidExposeWins ==
    (/\ call.fn = "parseDockerfilePort" /\ call.done
     /\ \A i \in DOMAIN LinesOf(call.content) : LinesOf(call.content)[i] \in DockerfileLines) =>
       LET lines == LinesOf(call.content)
           valid == {i \in 1..Len(lines) : Exposes(lines[i]) # 0}
       IN  IF valid = {} THEN call.out = 0
           ELSE call.out = Exposes(lines[CHOOSE i \in valid : \A j \in valid : i <= j])

\* An EXPOSE out of range came before one with a protocol: the second won.
ExposeOutOfRangeSkipped ==
    /\ call.fn = "parseDockerfilePort" /\ call.done
    /\ call.content = <<"E", "X", "P", "O", "S", "E", " ", "6", "5", "5", "3", "6", "\n", "E", "X", "P", "O", "S", "E", " ", "3", "0", "0", "0", "/", "t", "c", "p", "\n", "E", "X", "P", "O", "S", "E", " ", "8", "0", "8", "0">>
    /\ call.out = 3000

\* A call of parseComposePort has returned.
ComposeParsed == call.fn = "parseComposePort" /\ call.done

\* The first entry "H:C" of each body of the model whose two numbers are
\* ports.
FirstPair(body) ==
    CASE body = 1 -> <<0, 0>>
      [] body = 2 -> <<8080, 80>>
      [] body = 3 -> <<9090, 90>>
      [] body = 4 -> <<70, 7>>
      [] body = 5 -> <<0, 0>>

\* C27: with a service name, parseComposePort returns the first valid pair
\* of the ports list of the service of that name, <<0, 0>> when the file
\* has no such service or the service no valid entry; never a pair of
\* another service or of a block outside services; a reserved key is no
\* service name.
NamedServicePortsOnly ==
    (ComposeParsed /\ call.serviceName # <<>>) =>
       LET named == {i \in DOMAIN call.services : call.services[i].name = call.serviceName}
       IN  IF named = {} THEN call.out = <<0, 0>>
           ELSE \E i \in named : call.out = FirstPair(call.services[i].body)

\* The named service is not among the services, and the pair of the
\* extension block that follows them came back.
PairFromOutsideServices ==
    /\ ComposeParsed /\ call.serviceName = <<"d", "b">>
    /\ \A i \in DOMAIN call.services : call.services[i].name # call.serviceName
    /\ call.out = <<1, 2>>

\* C28: without a service name, a pair parseComposePort returns is the first
\* valid pair of the first service of the file, never one of a later
\* service.
UnnamedTakesFirstServiceOnly ==
    (ComposeParsed /\ call.serviceName = <<>> /\ call.out # <<0, 0>>) =>
       call.out = FirstPair(call.services[1].body)

\* No service was named, the first service has no ports, and the pair of
\* the second service came back.
PairOfLaterService ==
    /\ ComposeParsed /\ call.serviceName = <<>>
    /\ Len(call.services) = 2
    /\ FirstPair(call.services[1].body) = <<0, 0>>
    /\ call.out # <<0, 0>>
    /\ call.out = FirstPair(call.services[2].body)

\* A call of Detect has returned a result.
Detected == call.fn = "Detect" /\ call.done /\ ~call.out.err

\* The name is in the repository directory of the call.
Present(rel) == call.dir[rel].state # "absent"

\* The compose file names, the one looked for first having the least rank.
Rank(rel) ==
    CASE rel = "docker-compose.yml" -> 1
      [] rel = "docker-compose.yaml" -> 2
      [] rel = "compose.yml" -> 3
      [] rel = "compose.yaml" -> 4

ComposeNames == {"docker-compose.yml", "docker-compose.yaml", "compose.yml", "compose.yaml"}

\* C29: the result of Detect follows the priority docker-compose.yml,
\* docker-compose.yaml, compose.yml, compose.yaml, Dockerfile: with a
\* compose file in the repository root the type is compose and the compose
\* path the present name of the least rank, with or without a Dockerfile;
\* with a Dockerfile only the type is dockerfile; with neither the type is
\* none and the Dockerfile content the default template.
DetectFollowsPriority ==
    Detected =>
       IF \E rel \in ComposeNames : Present(rel)
       THEN /\ call.out.DeployType = "compose"
            /\ call.out.ComposePath \in ComposeNames
            /\ Present(call.out.ComposePath)
            /\ \A rel \in ComposeNames :
                  Present(rel) => Rank(call.out.ComposePath) <= Rank(rel)
            /\ call.out.ComposeContent = call.dir[call.out.ComposePath].content
       ELSE IF Present("Dockerfile")
       THEN /\ call.out.DeployType = "dockerfile"
            /\ call.out.DockerfilePath = "Dockerfile"
            /\ call.out.DockerfileContent = call.dir["Dockerfile"].content
            /\ call.out.ComposePath = ""
       ELSE /\ call.out.DeployType = "none"
            /\ call.out.DockerfilePath = ""
            /\ call.out.ComposePath = ""
            /\ call.out.DockerfileContent =
                  "FROM alpine:3.20\nWORKDIR /app\nCOPY . .\nEXPOSE 8080\nCMD [\"busybox\", \"httpd\", \"-f\", \"-p\", \"8080\", \"-h\", \"/app\"]\n"

\* The repository holds compose.yaml, compose.yml and a Dockerfile and
\* neither docker-compose name: the result is compose with compose.yml.
ComposeYmlBeforeComposeYamlAndDockerfile ==
    /\ Detected
    /\ Present("compose.yaml") /\ Present("compose.yml") /\ Present("Dockerfile")
    /\ ~Present("docker-compose.yml") /\ ~Present("docker-compose.yaml")
    /\ call.out.DeployType = "compose"
    /\ call.out.ComposePath = "compose.yml"

\* The operations a job has begun.
OpsOf(id) == {o[2] : o \in {x \in ops : x[1] = id}}

\* The deploy type a project row stands for: its explicit type, else
\* compose when it names a compose file, else dockerfile.
EffectiveType(project) ==
    CASE project.deploy_type = "compose" -> "compose"
      [] project.deploy_type = "dockerfile" -> "dockerfile"
      [] OTHER -> IF project.compose_file # "" THEN "compose" ELSE "dockerfile"

\* The compose command of each operation, and its call on the containers.
ComposeCommands == {"compose up", "compose stop", "compose pause", "compose unpause"}

CommandOf(type) ==
    CASE type = "deploy" -> "compose up"
      [] type = "start" -> "compose up"
      [] type = "stop" -> "compose stop"
      [] type = "pause" -> "compose pause"
      [] type = "unpause" -> "compose unpause"

PrimitiveOf(type) ==
    CASE type = "deploy" -> "run container"
      [] type = "start" -> "containers start"
      [] type = "stop" -> "containers stop"
      [] type = "pause" -> "containers pause"
      [] type = "unpause" -> "containers unpause"

ContainerPrimitives ==
    {"docker client", "remove containers", "build image", "run container",
     "containers start", "containers stop", "containers pause", "containers unpause"}

\* C30: start, stop, pause, unpause and deploy take the path of the
\* effective deploy type of the project: on a compose project the job calls
\* the compose command of its type and never the Docker client, a container
\* start, stop, pause, unpause, build or run; on a dockerfile project it
\* never calls a compose command; a job that succeeded has called the
\* command, or the container operation, of its type.
LifecyclePathFollowsDeployType ==
    \A id \in DOMAIN jobs :
       (jobs[id].type \in {"deploy", "start", "stop", "pause", "unpause"}
          /\ jobs[id].project_id \in DOMAIN projects
          /\ OpsOf(id) # {}) =>
          LET project == projects[jobs[id].project_id]
              type == jobs[id].type
          IN  IF EffectiveType(project) = "compose"
              THEN /\ OpsOf(id) \cap ContainerPrimitives = {}
                   /\ OpsOf(id) \cap ComposeCommands \subseteq {CommandOf(type)}
                   /\ jobs[id].status = JobStatusSucceeded => CommandOf(type) \in OpsOf(id)
              ELSE /\ OpsOf(id) \cap ComposeCommands = {}
                   /\ jobs[id].status = JobStatusSucceeded => PrimitiveOf(type) \in OpsOf(id)

\* A stop job has succeeded on a project that is compose by its compose
\* file alone: it ran compose stop.
InferredComposeStoppedByCompose ==
    /\ 1 \in DOMAIN jobs
    /\ jobs[1].type = "stop" /\ jobs[1].status = JobStatusSucceeded
    /\ projects["p1"].deploy_type = "auto" /\ projects["p1"].compose_file # ""
    /\ <<1, "compose stop">> \in ops

\* The steps of a deploy of a dockerfile project.
DockerfileDeployOrder ==
    <<"git sync", "write Dockerfile", "remove containers", "build image", "run container">>

\* The step belongs to the deploy of the project: the Dockerfile is written
\* only when the project holds its text and its path.
Applies(project, op) ==
    op = "write Dockerfile" =>
       (project.dockerfile_content # "" /\ project.dockerfile_path # "")

\* C31: in the deploy of a dockerfile project the repository sync, the
\* writing of the files, the removal of the earlier containers, the image
\* build and the container run begin in this order and each only when no
\* earlier step has returned an error: when a step begins, every step
\* before it has begun in this job, no step after it has, the job holds no
\* error, and the container is run only with the image of the project
\* built.
DockerfileDeployInOrder ==
    [][\A id \in DOMAIN jobs : \A k \in DOMAIN DockerfileDeployOrder :
          LET op == DockerfileDeployOrder[k]
              pid == jobs[id].project_id
          IN  (/\ <<id, op>> \in ops' /\ <<id, op>> \notin ops
               /\ jobs[id].type = "deploy"
               /\ pid \in DOMAIN projects
               /\ EffectiveType(projects[pid]) = "dockerfile")
              => /\ \A j \in 1..(k - 1) :
                       Applies(projects[pid], DockerfileDeployOrder[j])
                          => <<id, DockerfileDeployOrder[j]>> \in ops
                 /\ \A j \in (k + 1)..Len(DockerfileDeployOrder) :
                       <<id, DockerfileDeployOrder[j]>> \notin ops'
                 /\ \A w \in DOMAIN worker : worker[w].jobID = id => worker[w].err = ""
                 /\ op = "run container" => \E i \in docker.images : i.owner = pid]_vars

\* The deploy of a dockerfile project has succeeded after all five steps.
DockerfileDeployRanAllSteps ==
    /\ 1 \in DOMAIN jobs
    /\ jobs[1].type = "deploy" /\ jobs[1].status = JobStatusSucceeded
    /\ EffectiveType(projects["p1"]) = "dockerfile"
    /\ \A k \in DOMAIN DockerfileDeployOrder : <<1, DockerfileDeployOrder[k]>> \in ops

\* The sub-operation each current-step label stands for.
LabelOf(step) ==
    CASE step = "sync_repo" -> "repository sync"
      [] step = "docker_cleanup" -> "container cleanup"
      [] step = "docker_build" -> "image build"
      [] step = "docker_run" -> "container run"
      [] step \in {"compose_up", "compose_stop", "compose_pause", "compose_unpause"}
           -> "compose invocation"
      [] step = "remove_repo" -> "repository removal"
      [] step = "mark_deleted" -> "mark deleted"
      [] OTHER -> step

\* The sub-operation each error of a job comes from.
FailedIn(error) ==
    CASE error = "git sync" -> "repository sync"
      [] error \in {"write dockerfile", "write compose"} -> "file materialization"
      [] error = "remove containers" -> "container cleanup"
      [] error = "docker build" -> "image build"
      [] error = "docker run" -> "container run"
      [] error \in {"docker compose up", "docker compose stop", "docker compose pause",
                    "docker compose unpause"} -> "compose invocation"
      [] OTHER -> ""

\* C32: the current step of a job is set before each sub-operation begins:
\* the stored current step of a failed job names the sub-operation whose
\* error the job holds (repository sync, file materialization, container
\* cleanup, image build, container run, compose invocation).
FailedJobNamesFailedStep ==
    \A id \in DOMAIN jobs :
       (id > 0 /\ jobs[id].status = JobStatusFailed /\ FailedIn(jobs[id].error) # "")
          => LabelOf(jobs[id].current_step) = FailedIn(jobs[id].error)

\* A deploy has failed writing the Dockerfile with the step of the
\* repository sync still stored.
WriteFailedUnderSyncStep ==
    /\ 1 \in DOMAIN jobs
    /\ jobs[1].status = JobStatusFailed
    /\ jobs[1].error = "write dockerfile"
    /\ jobs[1].current_step = "sync_repo"
    /\ <<1, "write Dockerfile">> \in ops

\* A deploy has written a file of the project.
FileWritten == call.fn = "DeployFilePath" /\ call.done /\ call.out.written

\* The working directory of the projects of the model.
ResolvedWorkDir(repoSubdir) ==
    CASE repoSubdir = <<>> -> <<"/", "r">>
      [] repoSubdir = <<"a">> -> <<"/", "r", "/", "a">>

\* C33: every file deploy writes lies inside the resolved working directory
\* of the project, whatever the configured path; a path that leads out of
\* it is not written.
DeployWritesInsideWorkDir ==
    FileWritten => Inside(ResolvedWorkDir(call.repoSubdir), call.out.path)

\* A configured path ../a was written beside the repository.
WrittenOutsideWorkDir ==
    /\ FileWritten
    /\ call.repoSubdir = <<>> /\ call.filePath = <<".", ".", "/", "a">>
    /\ call.out.path = <<"/", "a">>

\* C34: soft deletion is final: a project row that is marked deleted keeps
\* its status deleted and its deleted_at through every later write, and no
\* project row is ever removed.
SoftDeletionIsFinal ==
    [][\A id \in DOMAIN projects :
          /\ id \in DOMAIN projects'
          /\ projects[id].deleted_at # NullInt =>
                /\ projects[id].last_status = ProjectStatusDeleted
                /\ projects'[id].last_status = ProjectStatusDeleted
                /\ projects'[id].deleted_at = projects[id].deleted_at]_vars

\* A status was written for a project that is deleted, and the row is as
\* the deletion left it.
StatusWrittenAfterDeletion ==
    /\ call.fn = "SetProjectStatus"
    /\ call.id \in DOMAIN projects
    /\ projects[call.id].deleted_at # NullInt
    /\ projects[call.id].last_status = ProjectStatusDeleted

\* The types of job the worker knows.
KnownTypes == {"deploy", "start", "stop", "pause", "unpause", "delete"}

\* runJob has taken the job up and has returned.
Ended(id) ==
    /\ runs[id] > 0
    /\ \A w \in DOMAIN worker :
          worker[w].jobID = id => worker[w].pc \in {"select", "returned"}

\* runJob is at work on the job.
InHand(id) ==
    \E w \in DOMAIN worker :
       worker[w].jobID = id /\ worker[w].pc \notin {"select", "returned", "notStarted"}

\* C35: a job of a type the worker does not know ends failed with the
\* error unknown job type, begins no git, engine or compose operation, and
\* leaves table projects as it was.
UnknownJobTypeFails ==
    /\ [](\A id \in DOMAIN jobs :
            (jobs[id].type \notin KnownTypes /\ Ended(id)) =>
               /\ jobs[id].status = JobStatusFailed
               /\ jobs[id].error = "unknown job type"
               /\ OpsOf(id) = {})
    /\ [][\A id \in DOMAIN jobs :
            (jobs[id].type \notin KnownTypes /\ InHand(id)) => projects' = projects]_vars

\* runJob has returned from a job of unknown type after the shutdown signal
\* and the row is still running.
UnknownTypeLeftRunning ==
    /\ 1 \in DOMAIN jobs
    /\ jobs[1].type \notin KnownTypes
    /\ Ended(1) /\ ctxDone
    /\ jobs[1].status = JobStatusRunning
    /\ OpsOf(1) = {}

\* The argument of the EXPOSE line of a Dockerfile of that one line.
ExposeToken(text) == SubSeq(text, 8, Len(text))

\* The number the leading decimal digits of a token spell; 0 without any.
RECURSIVE LeadingDigits(_, _)
LeadingDigits(token, value) ==
    IF token = <<>> \/ Head(token) \notin {"0", "8"} THEN value
    ELSE LeadingDigits(Tail(token), value * 10 + (IF Head(token) = "8" THEN 8 ELSE 0))

\* C36: parseDockerfilePort computes the port from the leading decimal
\* digits of the EXPOSE token only: digits after the first character that
\* is no digit do not count.
PortFromLeadingDigitsOnly ==
    (/\ call.fn = "parseDockerfilePort" /\ call.done
     /\ call.content \in ExposeTokenTexts(MaxTokenLen)) =>
       LET port == LeadingDigits(ExposeToken(call.content), 0)
       IN  call.out = IF port > 0 /\ port <= 65535 THEN port ELSE 0

\* EXPOSE 8-0 gave the port 80.
DigitsAfterHyphenCounted ==
    /\ call.fn = "parseDockerfilePort" /\ call.done
    /\ call.content = <<"E", "X", "P", "O", "S", "E", " ", "8", "-", "0">>
    /\ call.out = 80

\* C37: a draft is consumed at most once: when a request has created a
\* project from a draft, the draft row and its clone directory are gone, and
\* no other request for the same draft, concurrent ones included, creates a
\* second project.
DraftConsumedOnce ==
    call.fn = "createProjectFromDraft" =>
       /\ \A d \in DraftIds : Cardinality({m \in call.made : m[1] = d}) <= 1
       /\ \A h \in Handlers :
             call.handlers[h].pc = "created" =>
                /\ call.handlers[h].draftID \notin call.drafts
                /\ call.handlers[h].draftID \notin call.dirs

\* Two requests for the same draft have both answered 201: two projects,
\* on different host ports, were made from it, and the draft is gone.
TwoProjectsFromOneDraft ==
    /\ call.fn = "createProjectFromDraft"
    /\ \A h \in Handlers : call.handlers[h].pc = "created" /\ call.handlers[h].draftID = "d1"
    /\ call.made = {<<"d1", "p1">>, <<"d1", "p2">>}
    /\ GetProjectFound(projects, "p1") /\ GetProjectFound(projects, "p2")
    /\ call.drafts = {} /\ call.dirs = {}


\* Where a worker is while it executes a job: after runJob has accepted the
\* row and issued SetJobRunning, before it has returned to the select.
PastSetJobRunning(w) ==
    /\ Alive
    /\ worker[w].pc \notin {"notStarted", "select", "runJob", "setJobRunning", "returned"}

\* C38: whenever the worker is executing a job (any step between accepting
\* it and recording its outcome), the stored status of that job is running,
\* also when a write of the store returned an error.
ExecutedJobIsStoredRunning ==
    \A w \in WorkerGoroutines :
       PastSetJobRunning(w) => /\ worker[w].jobID \in DOMAIN jobs
                       /\ jobs[worker[w].jobID].status = JobStatusRunning

\* C38, its case: SetJobRunning returned an error that runJob discarded, and
\* the worker goes on to load the project of a job still stored as queued.
ExecutingWhileStoredQueued ==
    \E w \in WorkerGoroutines :
       /\ PastSetJobRunning(w)
       /\ worker[w].pc = "getProject"
       /\ jobs[worker[w].jobID].status = JobStatusQueued


\* The jobs that are not a deploy.
OtherThanDeploy ==
    {JobTypeStart, JobTypeStop, JobTypePause, JobTypeUnpause, JobTypeDelete}

\* The worker has given up job id: it is on its way through fail, or the
\* row is stored as failed.
GivenUp(w) ==
    \/ worker[w].pc \in {"fail", "setJobFailed"}
    \/ /\ worker[w].jobID \in DOMAIN jobs
       /\ jobs[worker[w].jobID].status = JobStatusFailed

\* C39: when a start, stop, pause, unpause or delete job fails, the status
\* and the deleted marker of its project are what runJob loaded before the
\* operation began; and a step that writes the status deploying or failed
\* into a project is a step of a deploy job.
FailedJobLeavesProjectAlone ==
    /\ [](\A w \in WorkerGoroutines :
            (/\ worker[w].job # NoJob
             /\ worker[w].job.type \in OtherThanDeploy
             /\ worker[w].project # NoProject
             /\ GivenUp(w))
            => /\ projects[worker[w].project.id].last_status = worker[w].project.last_status
               /\ projects[worker[w].project.id].deleted_at = worker[w].project.deleted_at)
    /\ [][\A p \in DOMAIN projects :
            (/\ projects'[p].last_status # projects[p].last_status
             /\ projects'[p].last_status \in {ProjectStatusDeploying, ProjectStatusFailed})
            => \E w \in WorkerGoroutines : /\ worker[w].job # NoJob
                                           /\ worker[w].job.type = JobTypeDeploy
                                           /\ worker[w].job.project_id = p]_vars

\* C39, its case: a stop job of a project that was running is stored as
\* failed after one of its steps returned an error.
FailedStopOfRunningProject ==
    \E w \in WorkerGoroutines :
       /\ worker[w].job # NoJob
       /\ worker[w].job.type = JobTypeStop
       /\ worker[w].project # NoProject
       /\ worker[w].project.last_status = ProjectStatusRunning
       /\ worker[w].err # ""
       /\ jobs[worker[w].jobID].status = JobStatusFailed


\* GetProject has no row to return for the job: no project of that
\* identifier, or one with the deleted marker.
Unloadable(id) ==
    \/ jobs[id].project_id \notin DOMAIN projects
    \/ projects[jobs[id].project_id].deleted_at # NullInt

\* C40: a job whose project cannot be loaded ends failed with the error
\* load project; while runJob has it in hand no git, engine or compose
\* operation begins and table projects stays as it was.
UnloadableProjectFailsJob ==
    /\ [](\A id \in DOMAIN jobs :
            (Unloadable(id) /\ Ended(id) /\ OpsOf(id) = {}) =>
               /\ jobs[id].status = JobStatusFailed
               /\ jobs[id].error = "load project")
    /\ [][\A id \in DOMAIN jobs :
            (Unloadable(id) /\ InHand(id)) => projects' = projects /\ ops' = ops]_vars

\* C40, its case: runJob has returned from a start job of a project that
\* carries the deleted marker, after the shutdown signal, and the row is
\* not stored as failed.
DeletedProjectJobNotFailed ==
    /\ 1 \in DOMAIN jobs
    /\ jobs[1].type = JobTypeStart
    /\ Unloadable(1)
    /\ Ended(1) /\ ctxDone
    /\ OpsOf(1) = {}
    /\ jobs[1].status # JobStatusFailed

====
